---- MODULE Spec2Model ----
(***************************************************************************)
(* Verification model of the log-analysis core of conflux-massive-test.    *)
(*                                                                         *)
(*   SpecStorage  analyzer/stat_latency/storage.py: SqliteStorage, its     *)
(*                write queue, the background writer thread, flush(),      *)
(*                the read API and close().                                *)
(*   SpecBlockMerge, SpecTxMerge  analyzer/log_utils/data_utils.py:        *)
(*                Block.merge and Transaction.merge on bounded operands.   *)
(*   SpecAgg, SpecPivot, SpecOrder                                         *)
(*                analyzer/log_aggregators/in_memory_aggregator.py:        *)
(*                add_host, validate, generate_latency_stat.               *)
(*   SpecStats    data_utils.py: Statistics; log_utils/table.py: Table.    *)
(*   SpecDump     stat_latency_map_reduce.py: HostLogReducer.dump, loadf.  *)
(*   SpecDb       analyzer/stat_latency/db_aggregator.py: DBLogAggregator. *)
(*   SpecPorts    conflux_deployer/node_management/node_manager.py:        *)
(*                NodeManager.collect_node_info.                           *)
(*                                                                         *)
(* Every specification constrains all variables of the module; the         *)
(* variables of the other parts stay at their initial value.               *)
(***************************************************************************)
EXTENDS Integers, Sequences, FiniteSets, TLC

(***************************************************************************)
(* Bounds of the model.                                                    *)
(***************************************************************************)
\* write operations enqueued in one run of the storage model
MaxOps == 2
\* largest batch_size the storage is constructed with (the default is 100)
MaxBatchSize == 2
\* commit_threshold the storage is constructed with (the default is 10000)
CommitThreshold == 2
\* cursor.execute failures the environment injects in one run
MaxExecFailures == 1

\* longest latency-sample list of a Block drawn as input
MaxSamples == 2
\* longest sample list of a custom stage of a Block drawn as input
MaxCustomSamples == 1
\* largest byte size of a Block drawn as input
MaxBlockSize == 1
\* merges of B' into B performed in one run of the merge model
MaxMerges == 2

\* largest timestamp of a transaction observation drawn as input
MaxTs == 2
\* Transaction objects (one per observing log) in one run of the merge model
NumTx == 3

\* host logs folded into the aggregator in one run
MaxHosts == 3
\* node logs (sync/cons-gap statistics) of one host
MaxLogsPerHost == 1
\* longest Sync sample list of a block in one host log
MaxHostSamples == 1

\* longest sample handed to Statistics() in the statistics model
MaxSampleSize == 4
\* largest value in such a sample
MaxValue == 3
\* Table.add_stat calls in one run
MaxAddStat == 2

\* longest Sync sample list of a block in a dumped reducer
MaxDumpSamples == 2

\* hosts of the cluster handed to the DBLogAggregator
MaxDbHosts == 2

\* largest ports_block_size of the configuration
MaxPortsBlock == 2
\* largest nodes_count of a ServerInstance
MaxNodesCount == 3
\* collect_node_info calls
MaxCollect == 3

\* lines read by the mappers of one host
MaxLogLines == 3
\* node logs of the host
MaxNodeLogs == 2
\* largest inserted_block_count of a Statistics line
MaxBlockCount == 1

\* hosts folded into the queried aggregator
MaxQueryHosts == 2
\* stat_* calls made on it
MaxQueries == 2

\* host files below the logs directory
MaxLoadFiles == 3
\* largest width of the loader's thread pool
MaxWorkers == 2

\* block hashes written to and read from the store
Hashes == {"h1", "h2"}
\* threads that make multi-step calls (flush, read, close) on the store
Callers == {"c1"}
\* the `path` argument of SqliteStorage (":memory:" is the default)
Paths == {":memory:", "file"}

VARIABLES
    \* ---- SqliteStorage ----
    path,          \* self.path
    batch_size,    \* self.batch_size
    queue,         \* self._op_queue: the items not yet taken by the writer
    unfinished,    \* self._op_queue.unfinished_tasks (put: +1, task_done: -1)
    batch,         \* the writer's local list `batch` / the `ops` being applied
    wpc,           \* position of the writer thread in _writer_loop
    insert_count,  \* self._insert_count
    conn,          \* self.conn: "open" or "closed"
    db,            \* the database self.conn is connected to
    cpc,           \* position of each calling thread
    result,        \* what the last read call of each caller returned
    mark,          \* history: operations enqueued when the caller's call started
    enqueued,      \* history: every operation put on the queue, in put order
    applied,       \* history: ids of the operations whose batch was committed
    failed,        \* history: ids of the operations whose batch raised
    shadow,        \* history: the rows committed so far, never reset
    execFailures,  \* history: execute failures injected so far
    lost,          \* history: the connection was closed behind the store's back
    reopenFailed,  \* history: _ensure_conn_open could not reopen the connection
    \* ---- Block.merge ----
    fwd,           \* the objects B (self) and B' (another) of B.merge(B')
    bwd,           \* copies of the same two blocks, for B'.merge(B)
    nFwd,          \* calls of B.merge(B') made on fwd
    nBwd,          \* calls of B'.merge(B) made on bwd
    nSelf,         \* calls of B.merge(B) made on fwd
    \* ---- Transaction.merge ----
    txPool,        \* the Transaction objects of one transaction still in use
    txLast,        \* history: <<self before, tx, self after>> of the last merge
    \* ---- InMemoryLogAggregator ----
    agg,           \* the fields of the aggregator object
    aggPhase,      \* "adding", "validated" or "generated"
    nHosts,        \* history: add_host calls made
    atValidate,    \* history: self.blocks when validate() was called
    \* ---- Statistics and Table ----
    sample,        \* history: the list handed to Statistics(), as it was given
    statData,      \* the caller's list object (Statistics sorts it in place)
    stat,          \* the Statistics object: built or not yet, and its __dict__
    got,           \* the outcome of the last stat.get(p, data_format)
    tableRows,     \* Table.rows
    nAddStat,      \* history: Table.add_stat calls made
    \* ---- HostLogReducer.dump / loadf ----
    reducer,       \* the HostLogReducer that is dumped
    dumpFile,      \* the JSON document in the output file
    loaded,        \* the HostLogReducer returned by loadf
    \* ---- add_host in two orders ----
    orderHosts,    \* the host summaries, in the order of the first fold
    orderAgg,      \* the aggregator of each fold ("fwd": in order, "bwd": reversed)
    orderPc,       \* per fold: hosts added so far, then "validated", "generated"
    \* ---- DBLogAggregator ----
    dbHosts,       \* the host summaries of the cluster
    dbStore,       \* the tables of the store
    dbQueue,       \* the delete operations requested and not yet applied
    dbAgg,         \* the fields of the DBLogAggregator
    dbAdded,       \* add_host calls made
    dbPhase,       \* "adding", "validated" or "generated"
    dbDeleteAfterRead, \* the argument of generate_latency_stat, once called
    \* ---- NodeManager ----
    ports_block,       \* conflux_config["ports_block_size"]
    nodes,             \* self.nodes: node id -> NodeInfo
    instance_nodes,    \* self.instance_nodes: instance id -> node ids
    port_allocations,  \* self.port_allocations: instance id -> offset
    state_file,        \* the state pickled in self.state_file
    nCollect,          \* history: collect_node_info calls made
    \* ---- NodeLogMapper ----
    nodeMapper,    \* the NodeLogMapper of the log file being read
    mapPc,    \* "mapping", or "raised" once parse_log_line raised
    mapLine,    \* history: the line of the last parse_log_line call
    mapOutcome,    \* history: how that call ended
    hostReducer,    \* the HostLogReducer of HostLogReducer.reduced
    nNodeLogs,    \* history: node logs folded with reduce_one
    nLogLines,    \* history: lines read so far
    txSeen,    \* history: Sampled transaction lines folded from this file
    txEarliest,   \* history: the smallest timestamp among them
    \* ---- queried InMemoryLogAggregator ----
    queryAgg,    \* the InMemoryLogAggregator that is queried
    queryPc,    \* "adding", "validated" or "generated"
    queryResult,    \* what the last stat_* call gave back
    nQueryHosts,    \* history: add_host calls made
    nQueries,   \* history: stat_* calls made
    \* ---- LogDirectoryLoader ----
    loadFiles,    \* the blocks.log files os.walk found, one per host
    max_workers,    \* self.max_workers
    futures,    \* the state of the future of each file
    loadPc,    \* where load() is
    loadHost,    \* the future as_completed yielded last
    loadYielded,    \* the futures as_completed has yielded
    loadAdded,    \* history: the hosts add_host was called with, in order
    loadActive,   \* history: the add_host calls that have not returned
    \* ---- forced cleanup ----
    cloudInstances,    \* region index -> the instances the region holds
    tagFilterFails,    \* list_instances_by_tag raises on this provider
    stateDeployment,    \* deployment_id of the state file, <<>> when absent
    stateInstances,    \* the instance ids the state file records
    clPc,    \* idle, regions, returned or raised
    clEntry,    \* the entry point called
    clDryRun,    \* its dry_run argument
    clDeployment,    \* the deployment id in effect
    clPattern,    \* its pattern_prefix argument
    clRegion,    \* index of the region the loop is at
    stopped,    \* ids passed to stop_instances calls that returned
    terminated,    \* ids passed to terminate_instances calls that returned
    clResults    \* the results dict

storageVars == <<path, batch_size, queue, unfinished, batch, wpc, insert_count,
                 conn, db, cpc, result, mark, enqueued, applied, failed,
                 shadow, execFailures, lost, reopenFailed>>

blockVars == <<fwd, bwd, nFwd, nBwd, nSelf>>

txVars == <<txPool, txLast>>

aggVars == <<agg, aggPhase, nHosts, atValidate>>

statVars == <<sample, statData, stat, got, tableRows, nAddStat>>

dumpVars == <<reducer, dumpFile, loaded>>

\* the variables of the parts other than the first four
orderVars == <<orderHosts, orderAgg, orderPc>>

dbVars == <<dbHosts, dbStore, dbQueue, dbAgg, dbAdded, dbPhase, dbDeleteAfterRead>>

portVars == <<ports_block, nodes, instance_nodes, port_allocations, state_file, nCollect>>

mapVars == <<nodeMapper, mapPc, mapLine, mapOutcome, hostReducer, nNodeLogs, nLogLines, txSeen, txEarliest>>

queryVars == <<queryAgg, queryPc, queryResult, nQueryHosts, nQueries>>

loaderVars == <<loadFiles, max_workers, futures, loadPc, loadHost, loadYielded, loadAdded, loadActive>>

cleanupVars == <<cloudInstances, tagFilterFails, stateDeployment, stateInstances, clPc, clEntry, clDryRun, clDeployment, clPattern, clRegion, stopped, terminated, clResults>>

laterVars == <<statVars, dumpVars, orderVars, dbVars, portVars, mapVars, queryVars, loaderVars, cleanupVars>>

vars == <<storageVars, blockVars, txVars, aggVars, laterVars>>

\* the variables a part of the model leaves alone
exceptStorage == <<blockVars, txVars, aggVars, laterVars>>
exceptBlock == <<storageVars, txVars, aggVars, laterVars>>
exceptTx == <<storageVars, blockVars, aggVars, laterVars>>
exceptAgg == <<storageVars, blockVars, txVars, laterVars>>
exceptStat == <<storageVars, blockVars, txVars, aggVars, dumpVars, orderVars, dbVars, portVars, mapVars, queryVars, loaderVars, cleanupVars>>
exceptDump == <<storageVars, blockVars, txVars, aggVars, statVars, orderVars, dbVars, portVars, mapVars, queryVars, loaderVars, cleanupVars>>
exceptOrder == <<storageVars, blockVars, txVars, aggVars, statVars, dumpVars, dbVars, portVars, mapVars, queryVars, loaderVars, cleanupVars>>
exceptDb == <<storageVars, blockVars, txVars, aggVars, statVars, dumpVars, orderVars, portVars, mapVars, queryVars, loaderVars, cleanupVars>>
exceptPort == <<storageVars, blockVars, txVars, aggVars, statVars, dumpVars, orderVars, dbVars, mapVars, queryVars, loaderVars, cleanupVars>>
exceptMap == <<storageVars, blockVars, txVars, aggVars, statVars, dumpVars, orderVars, dbVars, portVars, queryVars, loaderVars, cleanupVars>>
exceptQuery == <<storageVars, blockVars, txVars, aggVars, statVars, dumpVars, orderVars, dbVars, portVars, mapVars, loaderVars, cleanupVars>>
exceptLoader == <<storageVars, blockVars, txVars, aggVars, statVars, dumpVars, orderVars, dbVars, portVars, mapVars, queryVars, cleanupVars>>
exceptCleanup == <<storageVars, blockVars, txVars, aggVars, statVars, dumpVars, orderVars, dbVars, portVars, mapVars, queryVars, loaderVars>>

(***************************************************************************)
(* SqliteStorage: operations and the store.                                *)
(***************************************************************************)
\* the sentinel close() puts on the queue
None == [id |-> 0, otype |-> "None", hash |-> "-"]

\* a ("block_latency", (h, "Sync", v)) tuple; the id stands for the value v
BlockLatencyOp(i, h) == [id |-> i, otype |-> "block_latency", hash |-> h]

\* a ("delete_block", (h,)) tuple
DeleteBlockOp(i, h) == [id |-> i, otype |-> "delete_block", hash |-> h]

\* the database right after _init_schema: the tables exist and are empty
EmptyDb == [schema |-> TRUE, rows |-> <<>>]

\* a database sqlite3.connect(":memory:") creates: no table at all
FreshMemoryDb == [schema |-> FALSE, rows |-> <<>>]

\* ApplyOp with the insert of block_latency written like the one of block_meta
\* (INSERT OR IGNORE on the hash): a second sample of a block is dropped
ApplyOp_InsertOrIgnore(rows, op) ==
    IF op.otype = "block_latency"
    THEN IF \E k \in 1..Len(rows) : rows[k].hash = op.hash
         THEN rows
         ELSE Append(rows, [id |-> op.id, hash |-> op.hash])
    ELSE IF op.otype = "delete_block"
    THEN SelectSeq(rows, LAMBDA r : r.hash # op.hash)
    ELSE rows

\* one iteration of the `for op in ops` loop of _process_batch on the
\* block_latency table
ApplyOp(rows, op) ==
    IF op.otype = "block_latency"
    THEN Append(rows, [id |-> op.id, hash |-> op.hash])
    ELSE IF op.otype = "delete_block"
    THEN SelectSeq(rows, LAMBDA r : r.hash # op.hash)
    ELSE rows

\* the loop of _process_batch run from the last operation of the batch to
\* the first
RECURSIVE ApplyBatch_Reversed(_, _)
ApplyBatch_Reversed(rows, ops) ==
    IF ops = <<>> THEN rows
    ELSE ApplyOp(ApplyBatch_Reversed(rows, Tail(ops)), Head(ops))

\* the whole `for op in ops` loop of _process_batch
RECURSIVE ApplyBatch(_, _)
ApplyBatch(rows, ops) ==
    IF ops = <<>> THEN rows
    ELSE ApplyBatch(ApplyOp(rows, Head(ops)), Tail(ops))

\* ids of the operations in a list
IdsOf(ops) == {ops[k].id : k \in 1..Len(ops)}

\* the commit policy at the end of a successful batch
CountAfterCommit(cnt) == IF cnt >= CommitThreshold THEN 0 ELSE cnt

\* SELECT lat_type, value FROM block_latency WHERE block_hash = h
SelectBlockLatencies(rows, h) == SelectSeq(rows, LAMBDA r : r.hash = h)

\* what a caller holds before its first read call returns
NoResult == [status |-> "none", hash |-> "-", rows |-> <<>>]

\* the return value of get_block_latencies(h)
ReadOk(h, rows) == [status |-> "ok", hash |-> h, rows |-> rows]

\* get_block_latencies(h) raised
ReadError(h) == [status |-> "error", hash |-> h, rows |-> <<>>]

\* the database a connection reopened by _ensure_conn_open is connected to:
\* sqlite3.connect(self.path) without _init_schema
ReopenedDb(p, d) == IF p = ":memory:" THEN FreshMemoryDb ELSE d

\* a caller that is not inside a call
IsIdle(c) == cpc[c] \in {"idle", "flushed", "read_done"}

\* the Block.merge variables while another part of the model runs
IdleBlock ==
    /\ fwd = <<>>
    /\ bwd = <<>>
    /\ nFwd = 0
    /\ nBwd = 0
    /\ nSelf = 0

\* the SqliteStorage variables while another part of the model runs
IdleStorage ==
    /\ path = "file"
    /\ batch_size = 1
    /\ queue = <<>>
    /\ unfinished = 0
    /\ batch = <<>>
    /\ wpc = "get"
    /\ insert_count = 0
    /\ conn = "open"
    /\ db = EmptyDb
    /\ cpc = [c \in Callers |-> "idle"]
    /\ result = [c \in Callers |-> NoResult]
    /\ mark = [c \in Callers |-> 0]
    /\ enqueued = <<>>
    /\ applied = {}
    /\ failed = {}
    /\ shadow = <<>>
    /\ execFailures = 0
    /\ lost = FALSE
    /\ reopenFailed = FALSE

\* the Transaction.merge variables while another part of the model runs
IdleTx ==
    /\ txPool = <<>>
    /\ txLast = <<>>

\* the aggregator variables while another part of the model runs
IdleAgg ==
    /\ agg = <<>>
    /\ aggPhase = "idle"
    /\ nHosts = 0
    /\ atValidate = <<>>

\* the Statistics / Table variables while another part of the model runs
IdleStat ==
    /\ sample = <<>>
    /\ statData = <<>>
    /\ stat = "idle"
    /\ got = "idle"
    /\ tableRows = <<>>
    /\ nAddStat = 0

\* the dump / loadf variables while another part of the model runs
IdleDump ==
    /\ reducer = "idle"
    /\ dumpFile = "idle"
    /\ loaded = "idle"

\* the variables of the two folds while another part of the model runs
IdleOrder ==
    /\ orderHosts = <<>>
    /\ orderAgg = <<>>
    /\ orderPc = <<>>

\* the variables of the DBLogAggregator while another part of the model runs
IdleDb ==
    /\ dbHosts = <<>>
    /\ dbStore = <<>>
    /\ dbQueue = <<>>
    /\ dbAgg = <<>>
    /\ dbAdded = 0
    /\ dbPhase = "adding"
    /\ dbDeleteAfterRead = FALSE

\* the variables of the NodeManager while another part of the model runs
IdlePort ==
    /\ ports_block = 0
    /\ nodes = <<>>
    /\ instance_nodes = <<>>
    /\ port_allocations = <<>>
    /\ state_file = <<>>
    /\ nCollect = 0

\* the variables of the NodeLogMapper while another part of the model runs
IdleMap ==
    /\ nodeMapper = <<>>
    /\ mapPc = "idle"
    /\ mapLine = <<>>
    /\ mapOutcome = "idle"
    /\ hostReducer = <<>>
    /\ nNodeLogs = 0
    /\ nLogLines = 0
    /\ txSeen = 0
    /\ txEarliest = 0

\* the variables of the queried InMemoryLogAggregator while another part of the model runs
IdleQuery ==
    /\ queryAgg = <<>>
    /\ queryPc = "idle"
    /\ queryResult = <<>>
    /\ nQueryHosts = 0
    /\ nQueries = 0

\* the variables of the LogDirectoryLoader while another part of the model runs
IdleLoader ==
    /\ loadFiles = {}
    /\ max_workers = 0
    /\ futures = <<>>
    /\ loadPc = "idle"
    /\ loadHost = 0
    /\ loadYielded = {}
    /\ loadAdded = <<>>
    /\ loadActive = {}

\* the variables of the forced cleanup while another part of the model runs
IdleCleanup ==
    /\ cloudInstances = <<>>
    /\ tagFilterFails = FALSE
    /\ stateDeployment = <<>>
    /\ stateInstances = {}
    /\ clPc = "idle"
    /\ clEntry = "none"
    /\ clDryRun = FALSE
    /\ clDeployment = <<>>
    /\ clPattern = <<>>
    /\ clRegion = 0
    /\ stopped = {}
    /\ terminated = {}
    /\ clResults = <<>>

\* the parts other than the first four are not running
IdleLater == IdleStat /\ IdleDump /\ IdleOrder /\ IdleDb /\ IdlePort /\ IdleMap /\ IdleQuery /\ IdleLoader /\ IdleCleanup

\* the first four parts are not running
IdleCore == IdleStorage /\ IdleBlock /\ IdleTx /\ IdleAgg

InitStorage ==
    /\ path \in Paths
    /\ batch_size \in 1..MaxBatchSize
    /\ queue = <<>>
    /\ unfinished = 0
    /\ batch = <<>>
    /\ wpc = "get"
    /\ insert_count = 0
    /\ conn = "open"
    /\ db = EmptyDb
    /\ cpc = [c \in Callers |-> "idle"]
    /\ result = [c \in Callers |-> NoResult]
    /\ mark = [c \in Callers |-> 0]
    /\ enqueued = <<>>
    /\ applied = {}
    /\ failed = {}
    /\ shadow = <<>>
    /\ execFailures = 0
    /\ lost = FALSE
    /\ reopenFailed = FALSE
    /\ IdleBlock
    /\ IdleTx
    /\ IdleAgg
    /\ IdleLater

writerVars == <<batch, wpc, insert_count, applied, failed, shadow, execFailures>>
callerVars == <<cpc, result, mark>>
\* the configuration, and the history of failed reopen attempts, which only
\* _ensure_conn_open writes
configVars == <<path, batch_size, reopenFailed>>

\* Queue.put(op) of add_block_latency / delete_block_raw, from any thread
Put(op) ==
    /\ queue' = Append(queue, op)
    /\ unfinished' = unfinished + 1

\* add_block_latency(h, "Sync", v)
AddBlockLatency(h) ==
    /\ Len(enqueued) < MaxOps
    /\ LET op == BlockLatencyOp(Len(enqueued) + 1, h)
       IN  /\ Put(op)
           /\ enqueued' = Append(enqueued, op)
    /\ UNCHANGED <<configVars, writerVars, callerVars, conn, db, lost>>
    /\ UNCHANGED exceptStorage

\* delete_block_raw(h)
DeleteBlockRaw(h) ==
    /\ Len(enqueued) < MaxOps
    /\ LET op == DeleteBlockOp(Len(enqueued) + 1, h)
       IN  /\ Put(op)
           /\ enqueued' = Append(enqueued, op)
    /\ UNCHANGED <<configVars, writerVars, callerVars, conn, db, lost>>
    /\ UNCHANGED exceptStorage

(***************************************************************************)
(* The writer thread: _writer_loop and _process_batch.                     *)
(***************************************************************************)
\* where _writer_loop continues after the _process_batch call at `at`
AfterProcess(at) ==
    IF at = "proc_loop" THEN "get" ELSE "drain"

\* the task_done() that follows _process_batch([op]) in the drain loop
TaskDoneAfter(at) == IF at = "proc_drain" THEN 1 ELSE 0

\* op = self._op_queue.get(timeout=0.5) returns an item: the sentinel breaks
\* the loop, anything else joins the batch; task_done() is called right away
WriterGet ==
    /\ wpc = "get"
    /\ queue # <<>>
    /\ queue' = Tail(queue)
    /\ unfinished' = unfinished - 1
    /\ IF Head(queue) = None
       THEN /\ wpc' = "proc_rest"
            /\ batch' = batch
       ELSE /\ batch' = Append(batch, Head(queue))
            /\ wpc' = IF Len(batch') >= batch_size THEN "proc_loop" ELSE "get"
    /\ UNCHANGED <<configVars, callerVars, insert_count, applied, failed,
                   shadow, execFailures, conn, db, enqueued, lost>>
    /\ UNCHANGED exceptStorage

\* get(timeout=0.5) raises Empty while a batch is pending
WriterEmpty ==
    /\ wpc = "get"
    /\ queue = <<>>
    /\ batch # <<>>
    /\ wpc' = "proc_loop"
    /\ UNCHANGED <<configVars, callerVars, queue, unfinished, batch,
                   insert_count, applied, failed, shadow, execFailures,
                   conn, db, enqueued, lost>>
    /\ UNCHANGED exceptStorage

\* `if batch:` after the loop finds nothing left to apply
WriterSkipRest ==
    /\ wpc = "proc_rest"
    /\ batch = <<>>
    /\ wpc' = "drain"
    /\ UNCHANGED <<configVars, callerVars, queue, unfinished, batch,
                   insert_count, applied, failed, shadow, execFailures,
                   conn, db, enqueued, lost>>
    /\ UNCHANGED exceptStorage

\* _process_batch(batch): every execute succeeds and the batch is committed
ProcessBatchCommit ==
    /\ wpc \in {"proc_loop", "proc_rest", "proc_drain"}
    /\ batch # <<>>
    /\ conn = "open"
    /\ db.schema
    /\ db' = [db EXCEPT !.rows = ApplyBatch(db.rows, batch)]
    /\ shadow' = ApplyBatch(shadow, batch)
    /\ applied' = applied \cup IdsOf(batch)
    /\ insert_count' = CountAfterCommit(insert_count + Len(batch))
    /\ batch' = <<>>
    /\ unfinished' = unfinished - TaskDoneAfter(wpc)
    /\ wpc' = AfterProcess(wpc)
    /\ UNCHANGED <<configVars, callerVars, queue, failed, execFailures,
                   conn, enqueued, lost>>
    /\ UNCHANGED exceptStorage

\* _process_batch(batch): the k-th execute raises (always the first one when
\* the tables do not exist); the exception is caught and the transaction is
\* rolled back
ProcessBatchRollback(k) ==
    /\ wpc \in {"proc_loop", "proc_rest", "proc_drain"}
    /\ batch # <<>>
    /\ conn = "open"
    /\ k \in 1..Len(batch)
    /\ IF db.schema
       THEN /\ execFailures < MaxExecFailures
            /\ execFailures' = execFailures + 1
       ELSE /\ k = 1
            /\ execFailures' = execFailures
    /\ failed' = failed \cup IdsOf(batch)
    /\ insert_count' = insert_count + (k - 1)
    /\ batch' = <<>>
    /\ unfinished' = unfinished - TaskDoneAfter(wpc)
    /\ wpc' = AfterProcess(wpc)
    /\ UNCHANGED <<configVars, callerVars, queue, applied, shadow, conn, db,
                   enqueued, lost>>
    /\ UNCHANGED exceptStorage

\* _process_batch(batch) on a closed connection: self.conn.cursor() raises
\* before the try block, the exception leaves _writer_loop and ends the thread
ProcessBatchRaise ==
    /\ wpc \in {"proc_loop", "proc_rest", "proc_drain"}
    /\ batch # <<>>
    /\ conn = "closed"
    /\ failed' = failed \cup IdsOf(batch)
    /\ batch' = <<>>
    /\ wpc' = "dead"
    /\ UNCHANGED <<configVars, callerVars, queue, unfinished, insert_count,
                   applied, shadow, execFailures, conn, db, enqueued, lost>>
    /\ UNCHANGED exceptStorage

\* the drain loop after the main loop: get_nowait() until Empty
WriterDrain ==
    /\ wpc = "drain"
    /\ IF queue = <<>>
       THEN /\ wpc' = "final"
            /\ UNCHANGED <<queue, unfinished, batch>>
       ELSE /\ queue' = Tail(queue)
            /\ IF Head(queue) = None
               THEN /\ unfinished' = unfinished - 1
                    /\ UNCHANGED <<batch, wpc>>
               ELSE /\ batch' = <<Head(queue)>>
                    /\ wpc' = "proc_drain"
                    /\ UNCHANGED unfinished
    /\ UNCHANGED <<configVars, callerVars, insert_count, applied, failed,
                   shadow, execFailures, conn, db, enqueued, lost>>
    /\ UNCHANGED exceptStorage

\* the final commit (its failure is logged) and the end of the thread
WriterFinalCommit ==
    /\ wpc = "final"
    /\ wpc' = "exited"
    /\ UNCHANGED <<configVars, callerVars, queue, unfinished, batch,
                   insert_count, applied, failed, shadow, execFailures,
                   conn, db, enqueued, lost>>
    /\ UNCHANGED exceptStorage

WriterNext ==
    \/ WriterGet
    \/ WriterEmpty
    \/ WriterSkipRest
    \/ ProcessBatchCommit
    \/ \E k \in 1..MaxBatchSize : ProcessBatchRollback(k)
    \/ ProcessBatchRaise
    \/ WriterDrain
    \/ WriterFinalCommit

(***************************************************************************)
(* The calling threads: flush(), get_block_latencies(), close().           *)
(***************************************************************************)
\* flush() is entered: self._op_queue.join() starts to wait
FlushCall(c) ==
    /\ IsIdle(c)
    /\ cpc' = [cpc EXCEPT ![c] = "flush"]
    /\ mark' = [mark EXCEPT ![c] = Len(enqueued)]
    /\ UNCHANGED <<configVars, writerVars, queue, unfinished, conn, db,
                   result, enqueued, lost>>
    /\ UNCHANGED exceptStorage

\* join() returns: unfinished_tasks is zero
FlushReturn(c) ==
    /\ cpc[c] = "flush"
    /\ unfinished = 0
    /\ cpc' = [cpc EXCEPT ![c] = "flushed"]
    /\ UNCHANGED <<configVars, writerVars, queue, unfinished, conn, db,
                   result, mark, enqueued, lost>>
    /\ UNCHANGED exceptStorage

\* get_block_latencies(h) is entered: its first statement is self.flush()
ReadCall(c) ==
    /\ IsIdle(c)
    /\ cpc' = [cpc EXCEPT ![c] = "read_flush"]
    /\ mark' = [mark EXCEPT ![c] = Len(enqueued)]
    /\ result' = [result EXCEPT ![c] = NoResult]
    /\ UNCHANGED <<configVars, writerVars, queue, unfinished, conn, db,
                   enqueued, lost>>
    /\ UNCHANGED exceptStorage

\* the flush() inside the read call returns
ReadFlushReturn(c) ==
    /\ cpc[c] = "read_flush"
    /\ unfinished = 0
    /\ cpc' = [cpc EXCEPT ![c] = "read_ensure"]
    /\ UNCHANGED <<configVars, writerVars, queue, unfinished, conn, db,
                   result, mark, enqueued, lost>>
    /\ UNCHANGED exceptStorage

\* _ensure_conn_open(): SELECT 1 succeeds, or the connection is replaced by a
\* new one to self.path
EnsureConnOpen(c) ==
    /\ cpc[c] = "read_ensure"
    /\ IF conn = "open"
       THEN UNCHANGED <<conn, db>>
       ELSE /\ conn' = "open"
            /\ db' = ReopenedDb(path, db)
    /\ cpc' = [cpc EXCEPT ![c] = "read_query"]
    /\ UNCHANGED <<configVars, writerVars, queue, unfinished, result, mark,
                   enqueued, lost>>
    /\ UNCHANGED exceptStorage

\* _ensure_conn_open(): SELECT 1 fails and sqlite3.connect(self.path) raises
\* (the file can no longer be opened); the exception is caught and logged,
\* self.conn stays the closed connection and the method returns
EnsureConnOpenFails(c) ==
    /\ cpc[c] = "read_ensure"
    /\ conn = "closed"
    /\ path # ":memory:"
    /\ reopenFailed' = TRUE
    /\ cpc' = [cpc EXCEPT ![c] = "read_query"]
    /\ UNCHANGED <<path, batch_size, writerVars, queue, unfinished, conn, db,
                   result, mark, enqueued, lost>>
    /\ UNCHANGED exceptStorage

\* the SELECT of get_block_latencies(h) under the lock, and the return
ReadQuery(c, h) ==
    /\ cpc[c] = "read_query"
    /\ result' = [result EXCEPT ![c] =
                    IF conn = "open" /\ db.schema
                    THEN ReadOk(h, SelectBlockLatencies(db.rows, h))
                    ELSE ReadError(h)]
    /\ cpc' = [cpc EXCEPT ![c] = "read_done"]
    /\ UNCHANGED <<configVars, writerVars, queue, unfinished, conn, db,
                   mark, enqueued, lost>>
    /\ UNCHANGED exceptStorage

\* a caller is inside close() or has returned from it
Closing(c) == cpc[c] \in {"close_join", "close_conn", "closed"}

\* close() is entered: the sentinel is put on the queue
CloseCall(c) ==
    /\ IsIdle(c)
    /\ \A d \in Callers : ~Closing(d)
    /\ Put(None)
    /\ cpc' = [cpc EXCEPT ![c] = "close_join"]
    /\ mark' = [mark EXCEPT ![c] = Len(enqueued)]
    /\ UNCHANGED <<configVars, writerVars, conn, db, result, enqueued, lost>>
    /\ UNCHANGED exceptStorage

\* self._writer_thread.join(timeout=30) returns because the thread has ended
CloseJoin(c) ==
    /\ cpc[c] = "close_join"
    /\ wpc \in {"exited", "dead"}
    /\ cpc' = [cpc EXCEPT ![c] = "close_conn"]
    /\ UNCHANGED <<configVars, writerVars, queue, unfinished, conn, db,
                   result, mark, enqueued, lost>>
    /\ UNCHANGED exceptStorage

\* the writer still has operations to apply: a pending batch or queued items
\* other than the sentinel
WriterHasWork ==
    \/ batch # <<>>
    \/ \E k \in 1..Len(queue) : queue[k] # None

\* self._writer_thread.join(timeout=30) returns because 30 seconds have passed
\* (only a writer with operations left to apply is taken to run that long)
CloseJoinTimeout(c) ==
    /\ cpc[c] = "close_join"
    /\ wpc \notin {"exited", "dead"}
    /\ WriterHasWork
    /\ cpc' = [cpc EXCEPT ![c] = "close_conn"]
    /\ UNCHANGED <<configVars, writerVars, queue, unfinished, conn, db,
                   result, mark, enqueued, lost>>
    /\ UNCHANGED exceptStorage

\* the commit and self.conn.close() under the lock, and the return of close()
CloseConn(c) ==
    /\ cpc[c] = "close_conn"
    /\ conn' = "closed"
    /\ cpc' = [cpc EXCEPT ![c] = "closed"]
    /\ UNCHANGED <<configVars, writerVars, queue, unfinished, db, result,
                   mark, enqueued>>
    /\ UNCHANGED lost
    /\ UNCHANGED exceptStorage

\* the environment closes the connection behind the store's back
ConnLost ==
    /\ conn = "open"
    /\ ~lost
    /\ \A c \in Callers : cpc[c] # "closed"
    /\ conn' = "closed"
    /\ lost' = TRUE
    /\ UNCHANGED <<configVars, writerVars, callerVars, queue, unfinished, db,
                   enqueued>>
    /\ UNCHANGED exceptStorage

CallerNext ==
    \/ \E h \in Hashes : AddBlockLatency(h)
    \/ \E h \in Hashes : DeleteBlockRaw(h)
    \/ \E c \in Callers : FlushCall(c)
    \/ \E c \in Callers : FlushReturn(c)
    \/ \E c \in Callers : ReadCall(c)
    \/ \E c \in Callers : ReadFlushReturn(c)
    \/ \E c \in Callers : EnsureConnOpen(c)
    \/ \E c \in Callers : EnsureConnOpenFails(c)
    \/ \E c \in Callers, h \in Hashes : ReadQuery(c, h)
    \/ \E c \in Callers : CloseCall(c)
    \/ \E c \in Callers : CloseJoin(c)
    \/ \E c \in Callers : CloseJoinTimeout(c)
    \/ \E c \in Callers : CloseConn(c)

NextStorage ==
    \/ WriterNext
    \/ CallerNext
    \/ ConnLost

SpecStorage == InitStorage /\ [][NextStorage]_vars

(***************************************************************************)
(* Properties of SqliteStorage.                                            *)
(***************************************************************************)
\* no fault has happened: no batch raised and the connection was not closed
\* behind the store's back
NoFault == failed = {} /\ ~lost

\* the operations 1..n have all been applied and committed
AllApplied(n) == \A i \in 1..n : i \in applied

\* the rows the block_latency table holds once a list of operations has taken
\* effect in order: the inserted samples that no later delete of their block
\* removed
ExpectedRows(ops) ==
    LET kept(i) == /\ ops[i].otype = "block_latency"
                   /\ \A j \in (i + 1)..Len(ops) :
                        ~(ops[j].otype = "delete_block" /\ ops[j].hash = ops[i].hash)
        tagged == [i \in 1..Len(ops) |-> [id |-> ops[i].id, hash |-> ops[i].hash, keep |-> kept(i)]]
        sel == SelectSeq(tagged, LAMBDA r : r.keep)
    IN  [k \in 1..Len(sel) |-> [id |-> sel[k].id, hash |-> sel[k].hash]]

\* C1: whenever flush() has returned, and whenever a read call is past its
\* flush, every operation enqueued before the call started has been applied
\* (stated for runs without a failed batch and without a lost connection).
C1_FlushIsBarrier ==
    \A c \in Callers :
        (cpc[c] \in {"flushed", "read_ensure", "read_query", "read_done"} /\ NoFault)
            => AllApplied(mark[c])

\* the writer has taken every item off the queue and holds no pending batch
WriterDrained == queue = <<>> /\ batch = <<>>

\* C2: with operations enqueued concurrently from any thread and no batch
\* failing, once the writer has drained the queue the store holds exactly the
\* effect of all enqueued operations: none lost, none applied twice.
C2_NoOpLostOrDuplicated ==
    (WriterDrained /\ NoFault /\ \A c \in Callers : cpc[c] # "closed")
        => db.rows = ExpectedRows(enqueued)

\* C2 witness: all MaxOps operations went through the writer without a
\* fault, a delete among them, and a sample survived
C2_Witness ==
    /\ WriterDrained /\ NoFault
    /\ \A c \in Callers : cpc[c] # "closed"
    /\ Len(enqueued) = MaxOps
    /\ AllApplied(MaxOps)
    /\ \E i \in 1..Len(enqueued) : enqueued[i].otype = "delete_block"
    /\ db.rows # <<>>

\* C3: when close() has returned, the writer thread has exited and every
\* operation enqueued before close() was called has been applied; the
\* connection is not closed while the writer is still running (stated for runs
\* in which nothing had failed).
C3_CloseIsSynchronous ==
    \A c \in Callers :
        (cpc[c] = "closed" /\ NoFault)
            => (wpc = "exited" /\ AllApplied(mark[c]))

\* C4: after a batch raised, none of its operations is visible in the store
\* and the writer thread is still running, so that later operations are
\* applied and flush() returns.
C4_FailedBatchIsContained ==
    failed # {} =>
        /\ \A k \in 1..Len(db.rows) : db.rows[k].id \notin failed
        /\ wpc # "dead"

\* C5: after the connection was closed behind the store's back, the next use
\* reopens it and no committed data is lost: an open connection always sees
\* the tables with exactly the committed rows, and the writer is not stopped
\* by the closure.
C5_ReopenKeepsCommitted ==
    /\ conn = "open" => db = [schema |-> TRUE, rows |-> shadow]
    /\ (\A c \in Callers : ~Closing(c)) => wpc # "dead"

(***************************************************************************)
(* Entity model (data_utils.py): Block and its merge.                      *)
(***************************************************************************)
\* latency samples (seconds)
Samples == {1, 2}

\* the names of default_latency_keys(): BlockLatencyType and
\* BlockEventRecordType
DefaultLatencyKeys ==
    {"Receive", "Sync", "Cons", "HeaderReady", "BodyReady", "SyncGraph",
     "ConsensusGraphStart", "ConsensusGraphReady", "ComputeEpoch",
     "NotifyTxPool", "TxPoolUpdated"}

\* the name of a custom stage found in a "Block events record" line
CustomKey == "Foo0"

\* the lists of at most n samples
SampleLists(n) == UNION {[1..m -> Samples] : m \in 0..n}

\* Block.__init__: every default latency key starts with an empty list
NewBlock(h) ==
    [hash |-> h, size |-> 0, latencies |-> [k \in DefaultLatencyKeys |-> <<>>]]

\* the Blocks with hash h drawn as input: a size, a list of Sync samples and,
\* when set_block_event_record found the custom stage, its non-empty list
Blocks(h) ==
    {[NewBlock(h) EXCEPT !.size = sz, !.latencies = [@ EXCEPT !["Sync"] = sync]] :
        sz \in 0..MaxBlockSize, sync \in SampleLists(MaxSamples)}
    \cup
    {[hash |-> h, size |-> sz,
      latencies |-> [k \in DefaultLatencyKeys \cup {CustomKey} |->
                        IF k = "Sync" THEN sync
                        ELSE IF k = CustomKey THEN cust ELSE <<>>]] :
        sz \in 0..MaxBlockSize, sync \in SampleLists(MaxSamples),
        cust \in SampleLists(MaxCustomSamples) \ {<<>>}}

\* the Blocks of another hash drawn as the operand of a merge
OtherBlocks(h) ==
    {b \in Blocks(h) : b.size = 0 /\ CustomKey \notin DOMAIN b.latencies}

\* Two Block objects and the latency names whose list is one and the same
\* list object in both (`self.latencies[k] = another.latencies[k]` shares it).
ObjectPair(s, a, sh) == [self |-> s, another |-> a, shared |-> sh]

\* Block.merge with the `k not in self.latencies` branch skipped: a latency
\* name only the other side knows is dropped
BlockMerge_DropNewKeys(p) ==
    IF p.self.hash # p.another.hash THEN p
    ELSE LET s == p.self
             a == p.another
             lat == [k \in DOMAIN s.latencies |->
                        IF k \notin DOMAIN a.latencies THEN s.latencies[k]
                        ELSE IF k \in p.shared THEN s.latencies[k] \o s.latencies[k]
                        ELSE s.latencies[k] \o a.latencies[k]]
         IN  ObjectPair([s EXCEPT !.latencies = lat,
                                  !.size = IF s.size = 0 /\ a.size > 0 THEN a.size ELSE s.size],
                        [a EXCEPT !.latencies = [k \in DOMAIN a.latencies |->
                                    IF k \in p.shared THEN lat[k] ELSE a.latencies[k]]],
                        p.shared)

\* Block.merge: p.self.merge(p.another).  Returns both objects, because
\* extending a shared list changes it in the other object too.
BlockMerge(p) ==
    IF p.self.hash # p.another.hash THEN p
    ELSE LET s == p.self
             a == p.another
             lat == [k \in DOMAIN s.latencies \cup DOMAIN a.latencies |->
                        IF k \notin DOMAIN a.latencies THEN s.latencies[k]
                        ELSE IF k \notin DOMAIN s.latencies THEN a.latencies[k]
                        ELSE IF k \in p.shared THEN s.latencies[k] \o s.latencies[k]
                        ELSE s.latencies[k] \o a.latencies[k]]
         IN  ObjectPair([s EXCEPT !.latencies = lat,
                                  !.size = IF s.size = 0 /\ a.size > 0 THEN a.size ELSE s.size],
                        [a EXCEPT !.latencies = [k \in DOMAIN a.latencies |->
                                    IF k \in p.shared THEN lat[k] ELSE a.latencies[k]]],
                        p.shared \cup (DOMAIN a.latencies \ DOMAIN s.latencies))

\* p.self.merge(p.self): both operands are one object, every list is shared
BlockMergeSelf(p) ==
    LET r == BlockMerge(ObjectPair(p.self, p.self, DOMAIN p.self.latencies))
    IN  ObjectPair(r.self,
                   [p.another EXCEPT !.latencies = [k \in DOMAIN p.another.latencies |->
                        IF k \in p.shared THEN r.self.latencies[k] ELSE p.another.latencies[k]]],
                   p.shared)

(***************************************************************************)
(* SpecBlockMerge: B.merge(B') on one pair of objects, B'.merge(B) on      *)
(* copies of the same two blocks.                                          *)
(***************************************************************************)
InitBlockMerge ==
    /\ \E b1 \in Blocks("h1"), b2 \in Blocks("h1") \cup OtherBlocks("h2") :
          /\ fwd = ObjectPair(b1, b2, {})
          /\ bwd = ObjectPair(b2, b1, {})
    /\ nFwd = 0
    /\ nBwd = 0
    /\ nSelf = 0
    /\ IdleStorage
    /\ IdleTx
    /\ IdleAgg
    /\ IdleLater

\* B.merge(B')
MergeForward ==
    /\ nFwd < MaxMerges
    /\ fwd' = BlockMerge(fwd)
    /\ nFwd' = nFwd + 1
    /\ UNCHANGED <<bwd, nBwd, nSelf>>
    /\ UNCHANGED exceptBlock

\* B'.merge(B) on the copies
MergeBackward ==
    /\ nBwd < 1
    /\ bwd' = BlockMerge(bwd)
    /\ nBwd' = nBwd + 1
    /\ UNCHANGED <<fwd, nFwd, nSelf>>
    /\ UNCHANGED exceptBlock

\* B.merge(B)
MergeSelf ==
    /\ nSelf < 1
    /\ fwd' = BlockMergeSelf(fwd)
    /\ nSelf' = nSelf + 1
    /\ UNCHANGED <<bwd, nFwd, nBwd>>
    /\ UNCHANGED exceptBlock

NextBlockMerge ==
    \/ MergeForward
    \/ MergeBackward
    \/ MergeSelf

SpecBlockMerge == InitBlockMerge /\ [][NextBlockMerge]_vars

(***************************************************************************)
(* Properties of Block.merge.                                              *)
(***************************************************************************)
\* occurrences of sample v in list l
Count(l, v) == Cardinality({i \in 1..Len(l) : l[i] = v})

\* the samples block b holds under latency name k
LatenciesOf(b, k) == IF k \in DOMAIN b.latencies THEN b.latencies[k] ELSE <<>>

\* two lists hold the same collection of samples
SameSamples(l1, l2) == \A v \in Samples : Count(l1, v) = Count(l2, v)

\* C6: for blocks B and B' with the same hash, B.merge(B') and B'.merge(B)
\* give for every latency name the same collection of samples, the union of
\* both sides' lists.
C6_MergeCommutes ==
    (nFwd = 1 /\ nBwd = 1 /\ nSelf = 0 /\ fwd.self.hash = fwd.another.hash) =>
        /\ DOMAIN fwd.self.latencies = DOMAIN bwd.self.latencies
        /\ \A k \in DOMAIN fwd.self.latencies \cup DOMAIN bwd.self.latencies :
              /\ SameSamples(LatenciesOf(fwd.self, k), LatenciesOf(bwd.self, k))
              /\ SameSamples(LatenciesOf(fwd.self, k),
                             LatenciesOf(bwd.another, k) \o LatenciesOf(fwd.another, k))

\* C6 witness: both merges done on blocks of one hash that differ in their
\* Sync samples, one of them alone knowing the custom stage
C6_Witness ==
    /\ nFwd = 1 /\ nBwd = 1 /\ nSelf = 0
    /\ fwd.self.hash = fwd.another.hash
    /\ Len(fwd.self.latencies["Sync"]) = 2 * MaxSamples
    /\ fwd.self.latencies["Sync"] # bwd.self.latencies["Sync"]
    /\ CustomKey \in DOMAIN fwd.self.latencies
    /\ CustomKey \notin DOMAIN bwd.another.latencies

\* C7: merging the same observation B' into B a second time, or B into
\* itself, leaves every latency list of B as it was after the first merge.
C7_MergeIdempotent ==
    [][((nFwd >= 1 /\ nFwd' = nFwd + 1 /\ fwd.self.hash = fwd.another.hash)
            \/ nSelf' = nSelf + 1)
          => fwd'.self.latencies = fwd.self.latencies]_vars

(***************************************************************************)
(* Entity model (data_utils.py): Transaction and its merge.                *)
(***************************************************************************)
\* Python's None in a timestamp list
Null == 0

\* timestamps of log lines (seconds)
Timestamps == 1..MaxTs

\* Transaction.__init__(hash, timestamp, by_block, packed_timestamps,
\* ready_pool_timstamps): three lists of one entry each
NewTransaction(h, ts, packed, ready) ==
    [hash |-> h, received_timestamps |-> <<ts>>,
     packed_timestamps |-> <<packed>>, ready_pool_timestamps |-> <<ready>>]

\* the Transaction objects a log yields for transaction h: received at ts,
\* seen or not seen entering a packing block and the ready pool
Observations(h) ==
    {NewTransaction(h, ts, packed, ready) :
        ts \in Timestamps, packed \in {Null} \cup Timestamps,
        ready \in {Null} \cup Timestamps}

\* the packed / ready-pool half of Transaction.merge on one list: `mine` is
\* self's list, `theirs` the list of tx
MergeTimestamps(mine, theirs) ==
    IF theirs[1] # Null
    THEN IF mine[1] = Null
         THEN [mine EXCEPT ![1] = theirs[1]]
         ELSE mine \o theirs
    ELSE mine

\* Transaction.merge: self.merge(tx), the new value of self
TransactionMerge(self, tx) ==
    [self EXCEPT
        !.received_timestamps = @ \o tx.received_timestamps,
        !.packed_timestamps = MergeTimestamps(@, tx.packed_timestamps),
        !.ready_pool_timestamps = MergeTimestamps(@, tx.ready_pool_timestamps)]

(***************************************************************************)
(* SpecTxMerge: the observations of one transaction are merged pairwise,   *)
(* as HostLogReducer.reduce_one and add_host do; the merged-in object is   *)
(* dropped.                                                                *)
(***************************************************************************)
InitTxMerge ==
    /\ txPool \in [1..NumTx -> Observations("t1")]
    /\ txLast = <<>>
    /\ IdleStorage
    /\ IdleBlock
    /\ IdleAgg
    /\ IdleLater

\* the list l without its i-th element
Remove(l, i) == SubSeq(l, 1, i - 1) \o SubSeq(l, i + 1, Len(l))

\* txPool[i].merge(txPool[j]); txPool[j] is not used again
MergeTx(i, j) ==
    /\ i \in 1..Len(txPool)
    /\ j \in 1..Len(txPool)
    /\ i # j
    /\ LET merged == TransactionMerge(txPool[i], txPool[j])
       IN  /\ txLast' = <<txPool[i], txPool[j], merged>>
           /\ txPool' = Remove([txPool EXCEPT ![i] = merged], j)
    /\ UNCHANGED exceptTx

NextTxMerge ==
    \E i, j \in 1..NumTx : MergeTx(i, j)

SpecTxMerge == InitTxMerge /\ [][NextTxMerge]_vars

(***************************************************************************)
(* Properties of Transaction.merge.                                        *)
(***************************************************************************)
\* the number of non-null entries of a timestamp list
NonNull(l) == Cardinality({i \in 1..Len(l) : l[i] # Null})

\* C8: after every Transaction.merge the result holds as many non-null packed
\* timestamps as both inputs together.
C8_MergeKeepsPackedCount ==
    txLast # <<>> =>
        NonNull(txLast[3].packed_timestamps)
            = NonNull(txLast[1].packed_timestamps) + NonNull(txLast[2].packed_timestamps)

(***************************************************************************)
(* Entity model (data_utils.py): Statistics.                               *)
(***************************************************************************)
\* the constructor without `data.sort()`: the list is indexed as given
Sorted_AsGiven(data) == data

\* data.sort()
Sorted(data) == SortSeq(data, LAMBDA x, y : x < y)

\* the index rounded to the nearest rank instead of truncated
PercentileIndex_Nearest(n, num, den) == ((2 * (n - 1) * num + den) \div (2 * den)) + 1

\* int((data_len - 1) * p.value) for p.value = num / den, as a 1-based index
\* (the float product truncates to the exact floor for every data_len below
\* 3000 and every member of Percentile)
PercentileIndex(n, num, den) == (((n - 1) * num) \div den) + 1

\* sum(data)
RECURSIVE Sum(_)
Sum(l) == IF l = <<>> THEN 0 ELSE Head(l) + Sum(Tail(l))

\* round(sum(data) / data_len, 2), in hundredths: the integer nearest to
\* 100 * sum / data_len, a tie going to the even one
RoundedAvg(data) ==
    LET x == 100 * Sum(data)
        n == Len(data)
        q == x \div n
        r == x % n
    IN  IF 2 * r < n THEN q
        ELSE IF 2 * r > n THEN q + 1
        ELSE IF q % 2 = 0 THEN q ELSE q + 1

\* the members of Percentile in definition order, with p.value = num / den
\* for the numeric ones
PercentileNames ==
    <<"Min", "Avg", "P10", "P30", "P50", "P80", "P90", "P95", "P99", "P999",
      "Max", "Cnt">>

\* Statistics(data): no field at all for an empty sample, else one field per
\* Percentile member (Avg in hundredths)
Statistics(data) ==
    IF Len(data) = 0
    THEN [f \in {} |-> 0]
    ELSE LET d == Sorted(data)
             n == Len(data)
         IN  [Min  |-> d[PercentileIndex(n, 0, 1)],
              Avg  |-> RoundedAvg(d),
              P10  |-> d[PercentileIndex(n, 1, 10)],
              P30  |-> d[PercentileIndex(n, 3, 10)],
              P50  |-> d[PercentileIndex(n, 5, 10)],
              P80  |-> d[PercentileIndex(n, 8, 10)],
              P90  |-> d[PercentileIndex(n, 9, 10)],
              P95  |-> d[PercentileIndex(n, 95, 100)],
              P99  |-> d[PercentileIndex(n, 99, 100)],
              P999 |-> d[PercentileIndex(n, 999, 1000)],
              Max  |-> d[PercentileIndex(n, 1, 1)],
              Cnt  |-> n]

\* the list object handed to Statistics(), after the constructor returned
SortedInPlace(data) == IF Len(data) = 0 THEN data ELSE Sorted(data)

\* the value of `data_format % result`, a string
Formatted(data_format, value) == [fmt |-> data_format, arg |-> value]

\* Statistics.get(p, data_format): self.__dict__[p.name] raises KeyError for
\* a field the object does not have
StatisticsGet(s, p, data_format) ==
    IF p \notin DOMAIN s
    THEN [outcome |-> "KeyError", value |-> Formatted("None", 0)]
    ELSE [outcome |-> "return",
          value |-> IF data_format # "None" THEN Formatted(data_format, s[p])
                    ELSE Formatted("None", s[p])]

(***************************************************************************)
(* LogAggregator / InMemoryLogAggregator.                                  *)
(***************************************************************************)
\* transaction hashes in the host logs (the block hashes are Hashes)
TxHashes == {"t1"}

\* an empty dict
EmptyMap == [x \in {} |-> 0]

\* d[key] = value
Assign(d, key, value) ==
    [x \in DOMAIN d \cup {key} |-> IF x = key THEN value ELSE d[x]]

\* only_pivot_event(t), on the name of t
OnlyPivotEvent(name) == name \in {"ComputeEpoch", "NotifyTxPool", "TxPoolUpdated"}

\* min(l) of a non-empty list
Min(l) == CHOOSE v \in {l[i] : i \in 1..Len(l)} : \A i \in 1..Len(l) : v <= l[i]

\* LogAggregator.__init__
NewAggregator ==
    [blocks |-> EmptyMap,
     txs |-> <<>>,
     sync_cons_gap_stats |-> <<>>,
     block_latency_stats |-> [k \in DefaultLatencyKeys |-> EmptyMap],
     tx_latency_stats |-> EmptyMap,
     tx_packed_to_block_latency |-> EmptyMap,
     min_tx_packed_to_block_latency |-> <<>>,
     host_by_block_ratio |-> <<>>,
     tx_wait_to_be_packed_time |-> <<>>,
     min_tx_to_ready_pool_latency |-> <<>>,
     largest_min_tx_packed_latency_hash |-> "None",
     largest_min_tx_packed_latency_time |-> 0]

\* the dict self.txs is kept as the list of its values in insertion order;
\* the position of hash h in it, 0 when absent
TxIndex(txs, h) ==
    IF \E i \in 1..Len(txs) : txs[i].hash = h
    THEN CHOOSE i \in 1..Len(txs) : txs[i].hash = h
    ELSE 0

\* Block.add_or_merge(blocks, block)
BlockAddOrMerge(blocks, block) ==
    IF block.hash \notin DOMAIN blocks
    THEN Assign(blocks, block.hash, block)
    ELSE [blocks EXCEPT ![block.hash] = BlockMerge(ObjectPair(@, block, {})).self]

\* Transaction.add_or_merge(txs, tx)
TransactionAddOrMerge(txs, tx) ==
    IF TxIndex(txs, tx.hash) = 0
    THEN Append(txs, tx)
    ELSE [txs EXCEPT ![TxIndex(txs, tx.hash)] = TransactionMerge(@, tx)]

\* the loop `for tx in host_log.txs.values(): Transaction.add_or_merge(...)`
RECURSIVE MergeHostTxs(_, _)
MergeHostTxs(txs, hostTxs) ==
    IF hostTxs = <<>> THEN txs
    ELSE MergeHostTxs(TransactionAddOrMerge(txs, Head(hostTxs)), Tail(hostTxs))

\* the loop of add_host that collects packed_timestamps[0] - min(received)
RECURSIVE WaitToBePacked(_)
WaitToBePacked(hostTxs) ==
    IF hostTxs = <<>> THEN <<>>
    ELSE LET tx == Head(hostTxs)
         IN  (IF tx.packed_timestamps[1] # Null
              THEN <<tx.packed_timestamps[1] - Min(tx.received_timestamps)>>
              ELSE <<>>) \o WaitToBePacked(Tail(hostTxs))

\* the loop `for b in host_log.blocks.values(): Block.add_or_merge(...)`;
\* the blocks of one host have distinct hashes, the order does not matter
MergeHostBlocks(blocks, hostBlocks) ==
    [h \in DOMAIN blocks \cup DOMAIN hostBlocks |->
        IF h \notin DOMAIN hostBlocks THEN blocks[h]
        ELSE BlockAddOrMerge(blocks, hostBlocks[h])[h]]

\* InMemoryLogAggregator.add_host(host_log): the new value of the aggregator
AddHostResult(a, host) ==
    [a EXCEPT
        !.sync_cons_gap_stats = @ \o host.sync_cons_gap_stats,
        !.blocks = MergeHostBlocks(@, host.blocks),
        !.txs = MergeHostTxs(@, host.txs),
        !.tx_wait_to_be_packed_time = @ \o WaitToBePacked(host.txs),
        !.host_by_block_ratio = @ \o host.by_block_ratio]

\* Block.latency_count(BlockLatencyType.Sync)
SyncCount(b) == Len(LatenciesOf(b, "Sync"))

\* the test of validate() weakened to `count_sync > num_nodes`: a block that
\* misses samples passes
MissedBySyncGraph_OnlyExcess(b, num_nodes) == SyncCount(b) > num_nodes

\* the test `count_sync != num_nodes` of validate()
MissedBySyncGraph(b, num_nodes) == SyncCount(b) # num_nodes

\* InMemoryLogAggregator.validate(): the new value of the aggregator
ValidateResult(a) ==
    LET num_nodes == Len(a.sync_cons_gap_stats)
        keep == {h \in DOMAIN a.blocks : ~MissedBySyncGraph(a.blocks[h], num_nodes)}
    IN  [a EXCEPT !.blocks = [h \in keep |-> a.blocks[h]]]

\* generate_latency_stat builds a Statistics for latency name k of block b
BuildsBlockStat(b, k, num_nodes) ==
    /\ k \in DOMAIN b.latencies
    /\ b.latencies[k] # <<>>
    /\ ~(/\ k \in DefaultLatencyKeys => OnlyPivotEvent(k)
         /\ Len(b.latencies[k]) < (9 * num_nodes) \div 10)

\* the block loop of generate_latency_stat: self.block_latency_stats
BlockLatencyStats(a) ==
    LET num_nodes == Len(a.sync_cons_gap_stats)
        built(k) == {h \in DOMAIN a.blocks : BuildsBlockStat(a.blocks[h], k, num_nodes)}
        custom == {k \in UNION {DOMAIN a.blocks[h].latencies : h \in DOMAIN a.blocks} :
                      k \notin DefaultLatencyKeys /\ built(k) # {}}
        old(k) == IF k \in DOMAIN a.block_latency_stats
                  THEN a.block_latency_stats[k] ELSE EmptyMap
    IN  [k \in DOMAIN a.block_latency_stats \cup custom |->
            [h \in DOMAIN old(k) \cup built(k) |->
                IF h \in built(k) THEN Statistics(a.blocks[h].latencies[k])
                ELSE old(k)[h]]]

\* the block loop of generate_latency_stat: Statistics(latencies) sorts the
\* block's own list in place
BlocksAfterStats(a) ==
    LET num_nodes == Len(a.sync_cons_gap_stats)
    IN  [h \in DOMAIN a.blocks |->
            [a.blocks[h] EXCEPT !.latencies =
                [k \in DOMAIN @ |->
                    IF BuildsBlockStat(a.blocks[h], k, num_nodes)
                    THEN Sorted(@[k]) ELSE @[k]]]]

\* Transaction.get_latencies()
TxLatencies(tx) ==
    [i \in 1..Len(tx.received_timestamps) |->
        tx.received_timestamps[i] - Min(tx.received_timestamps)]

\* Transaction.get_packed_to_block_latencies()
TxPackedToBlockLatencies(tx) ==
    LET packed == SelectSeq(tx.packed_timestamps, LAMBDA ts : ts # Null)
    IN  [i \in 1..Len(packed) |-> packed[i] - Min(tx.received_timestamps)]

\* Transaction.get_min_packed_to_block_latency(), for a transaction with a
\* non-null packed timestamp
TxMinPackedToBlockLatency(tx) ==
    Min(SelectSeq(tx.packed_timestamps, LAMBDA ts : ts # Null))
        - Min(tx.received_timestamps)

\* Transaction.get_min_tx_to_ready_pool_latency(), for a transaction with a
\* non-null ready-pool timestamp
TxMinToReadyPoolLatency(tx) ==
    Min(SelectSeq(tx.ready_pool_timestamps, LAMBDA ts : ts # Null))
        - Min(tx.received_timestamps)

\* the test of the transaction loop weakened to `<=`: a transaction that did
\* not reach every node passes
FullyPropagated_AtMost(tx, num_nodes) == Len(tx.received_timestamps) <= num_nodes

\* the test `tx.latency_count() == num_nodes` of generate_latency_stat
FullyPropagated(tx, num_nodes) == Len(tx.received_timestamps) = num_nodes

\* one iteration of the transaction loop of generate_latency_stat
GenerateTx(a, tx) ==
    LET num_nodes == Len(a.sync_cons_gap_stats)
        a1 == IF FullyPropagated(tx, num_nodes)
              THEN [a EXCEPT !.tx_latency_stats =
                        Assign(@, tx.hash, Statistics(TxLatencies(tx)))]
              ELSE a
        lat == TxMinPackedToBlockLatency(tx)
        a2 == IF tx.packed_timestamps[1] # Null
              THEN [a1 EXCEPT
                      !.tx_packed_to_block_latency =
                          Assign(@, tx.hash, Statistics(TxPackedToBlockLatencies(tx))),
                      !.largest_min_tx_packed_latency_hash =
                          IF @ # "None" /\ ~(a1.largest_min_tx_packed_latency_time < lat)
                          THEN @ ELSE tx.hash,
                      !.largest_min_tx_packed_latency_time =
                          IF a1.largest_min_tx_packed_latency_hash # "None" /\ ~(@ < lat)
                          THEN @ ELSE lat,
                      !.min_tx_packed_to_block_latency = Append(@, lat)]
              ELSE a1
    IN  IF tx.ready_pool_timestamps[1] # Null
        THEN [a2 EXCEPT !.min_tx_to_ready_pool_latency =
                            Append(@, TxMinToReadyPoolLatency(tx))]
        ELSE a2

\* the loop `for tx in self.txs.values()` of generate_latency_stat
RECURSIVE GenerateTxs(_, _)
GenerateTxs(a, txs) ==
    IF txs = <<>> THEN a
    ELSE GenerateTxs(GenerateTx(a, Head(txs)), Tail(txs))

\* InMemoryLogAggregator.generate_latency_stat(): the new value of the
\* aggregator
GenerateLatencyStatResult(a) ==
    GenerateTxs([a EXCEPT !.block_latency_stats = BlockLatencyStats(a),
                          !.blocks = BlocksAfterStats(a)],
                a.txs)

(***************************************************************************)
(* SpecAgg: host logs are folded into an InMemoryLogAggregator, then       *)
(* validate() and generate_latency_stat() run, as LogAnalyzer.analyze does.*)
(***************************************************************************)
\* the sync/cons gap samples of one node log
GapSamples == <<1>>

\* the Blocks with hash h of one host log: default keys, some Sync samples
HostBlocksOf(h) ==
    {[NewBlock(h) EXCEPT !.latencies = [@ EXCEPT !["Sync"] = sync]] :
        sync \in SampleLists(MaxHostSamples)}

\* the Transactions with hash h of one host log: received at ts, seen or not
\* seen entering a packing block or the ready pool at that time
HostTxsOf(h) ==
    UNION {{NewTransaction(h, ts, packed, ready) :
                packed \in {Null, ts}, ready \in {Null, ts}} : ts \in Timestamps}

\* the `blocks` dicts of a host log
HostBlockMaps ==
    UNION {{f \in [S -> UNION {HostBlocksOf(h) : h \in S}] : \A h \in S : f[h].hash = h} :
            S \in SUBSET Hashes}

\* the `txs` dicts of a host log, as lists of values of distinct hashes
HostTxLists ==
    UNION {{l \in [1..n -> UNION {HostTxsOf(h) : h \in TxHashes}] :
                \A i, j \in 1..n : i # j => l[i].hash # l[j].hash} :
            n \in 0..Cardinality(TxHashes)}

\* the HostLogReducer objects handed to add_host
HostLogs ==
    {[sync_cons_gap_stats |-> [i \in 1..n |-> Statistics(GapSamples)],
      blocks |-> bm, txs |-> tl, by_block_ratio |-> <<>>] :
        n \in 1..MaxLogsPerHost, bm \in HostBlockMaps, tl \in HostTxLists}

InitAgg ==
    /\ agg = NewAggregator
    /\ aggPhase = "adding"
    /\ nHosts = 0
    /\ atValidate = EmptyMap
    /\ IdleStorage
    /\ IdleBlock
    /\ IdleTx
    /\ IdleLater

\* agg.add_host(host)
AddHost(host) ==
    /\ aggPhase = "adding"
    /\ nHosts < MaxHosts
    /\ agg' = AddHostResult(agg, host)
    /\ nHosts' = nHosts + 1
    /\ UNCHANGED <<aggPhase, atValidate>>
    /\ UNCHANGED exceptAgg

\* agg.validate()
Validate ==
    /\ aggPhase = "adding"
    /\ agg' = ValidateResult(agg)
    /\ atValidate' = agg.blocks
    /\ aggPhase' = "validated"
    /\ UNCHANGED nHosts
    /\ UNCHANGED exceptAgg

\* agg.generate_latency_stat()
GenerateLatencyStat ==
    /\ aggPhase = "validated"
    /\ agg' = GenerateLatencyStatResult(agg)
    /\ aggPhase' = "generated"
    /\ UNCHANGED <<nHosts, atValidate>>
    /\ UNCHANGED exceptAgg

NextAgg ==
    \/ \E host \in HostLogs : AddHost(host)
    \/ Validate
    \/ GenerateLatencyStat

SpecAgg == InitAgg /\ [][NextAgg]_vars

(***************************************************************************)
(* Properties of InMemoryLogAggregator.                                    *)
(***************************************************************************)
\* N: the number of sync/cons-gap statistics folded in
NumNodes == Len(agg.sync_cons_gap_stats)

\* C9: after validate() a block is in the block map if and only if it was
\* there with exactly N Sync samples: blocks with fewer (or more) are absent,
\* a block with one sample from each of the N node logs is kept.
C9_ValidateKeepsCompleteBlocks ==
    aggPhase \in {"validated", "generated"} =>
        /\ DOMAIN agg.blocks =
              {h \in DOMAIN atValidate : Len(atValidate[h].latencies["Sync"]) = NumNodes}
        /\ \A h \in DOMAIN agg.blocks : Len(agg.blocks[h].latencies["Sync"]) = NumNodes

\* C9 witness: MaxHosts hosts were folded in; one block was reported by every
\* host and is kept, another one by fewer hosts and is gone
C9_Witness ==
    /\ aggPhase = "validated"
    /\ nHosts = MaxHosts
    /\ NumNodes = MaxHosts
    /\ DOMAIN atValidate = Hashes
    /\ \E h \in DOMAIN agg.blocks : Len(agg.blocks[h].latencies["Sync"]) = MaxHosts
    /\ \E h \in Hashes :
          /\ h \notin DOMAIN agg.blocks
          /\ Len(atValidate[h].latencies["Sync"]) \in 1..(MaxHosts - 1)

\* the hashes of the transactions in self.txs
TxKeys == {agg.txs[i].hash : i \in 1..Len(agg.txs)}

\* C10: after generate_latency_stat() a transaction hash is a key of
\* tx_latency_stats if and only if its number of received timestamps equals N;
\* every transaction, also an excluded one, is still in the transaction map
\* with all its received timestamps.
C10_TxStatsOnlyWhenComplete ==
    /\ [](aggPhase = "generated" =>
            DOMAIN agg.tx_latency_stats =
                {agg.txs[i].hash : i \in {j \in 1..Len(agg.txs) :
                                            Len(agg.txs[j].received_timestamps) = NumNodes}})
    /\ [][aggPhase' = "generated" => agg'.txs = agg.txs]_vars

\* C10 witness: MaxHosts hosts were folded in, a transaction was received by
\* all but one of them, it has no latency Statistics and is still in the
\* transaction map with all its received timestamps
C10_Witness ==
    /\ aggPhase = "generated"
    /\ nHosts = MaxHosts
    /\ NumNodes = MaxHosts
    /\ MaxHosts >= 2
    /\ \E i \in 1..Len(agg.txs) :
          /\ Len(agg.txs[i].received_timestamps) = MaxHosts - 1
          /\ agg.txs[i].hash \notin DOMAIN agg.tx_latency_stats
          /\ agg.txs[i].hash \in DOMAIN agg.tx_packed_to_block_latency

(***************************************************************************)
(* Table (log_utils/table.py).                                             *)
(***************************************************************************)
\* the data_format arguments of get / add_stat ("None": no format)
Formats == {"None", "%.2f"}

\* a cell holding a row name
NameCell(name) == [fmt |-> "name", arg |-> name]

\* the "N/A" cell
NotAvailable == [fmt |-> "N/A", arg |-> 0]

\* Table.new_matrix(name).header: the name and every Percentile but Min
NewMatrixHeader(name) ==
    <<name>> \o SelectSeq(PercentileNames, LAMBDA p : p # "Min")

\* Table.add_row(row): the assertion on the row length raises when it fails
AddRow(header, rs, row) ==
    IF Len(row) = Len(header)
    THEN [raised |-> FALSE, rows |-> Append(rs, row)]
    ELSE [raised |-> TRUE, rows |-> rs]

\* Table.add_stat(name, data_format, stat): the new value of self.rows.  Any
\* exception (a KeyError of stat.get, the assertion of add_row) is caught and
\* logged as a warning; the row built so far is dropped.
AddStatResult(header, rs, name, data_format, s) ==
    LET cols == SelectSeq(PercentileNames, LAMBDA p : p # "Min")
        cell(p) == StatisticsGet(s, p, IF p \in {"Avg", "Cnt"} THEN "None"
                                       ELSE data_format)
    IN  IF \E i \in 1..Len(cols) : cell(cols[i]).outcome = "KeyError"
        THEN rs
        ELSE AddRow(header, rs,
                    <<NameCell(name)>> \o [i \in 1..Len(cols) |-> cell(cols[i]).value]).rows

(***************************************************************************)
(* SpecStats: a Statistics is built from a list, queried with get() and    *)
(* added to a Table made by new_matrix.                                    *)
(***************************************************************************)
\* no Statistics object yet
NoStatistics == [built |-> FALSE, dict |-> <<>>]

\* no get() call made yet on the Statistics object
NoGet == [outcome |-> "none", value |-> Formatted("None", 0)]

\* the lists handed to Statistics()
SampleInputs == UNION {[1..n -> 1..MaxValue] : n \in 0..MaxSampleSize}

InitStats ==
    /\ sample \in SampleInputs
    /\ statData = sample
    /\ stat = NoStatistics
    /\ got = NoGet
    /\ tableRows = <<>>
    /\ nAddStat = 0
    /\ IdleCore
    /\ IdleCleanup
    /\ IdleLoader
    /\ IdleQuery
    /\ IdleMap
    /\ IdleDump
    /\ IdleOrder
    /\ IdleDb
    /\ IdlePort

\* stat = Statistics(data)
NewStatistics ==
    /\ ~stat.built
    /\ stat' = [built |-> TRUE, dict |-> Statistics(statData)]
    /\ statData' = SortedInPlace(statData)
    /\ UNCHANGED <<sample, got, tableRows, nAddStat>>
    /\ UNCHANGED exceptStat

\* stat.get(p, data_format)
Get(p, data_format) ==
    /\ stat.built
    /\ got' = StatisticsGet(stat.dict, p, data_format)
    /\ UNCHANGED <<sample, statData, stat, tableRows, nAddStat>>
    /\ UNCHANGED exceptStat

\* table.add_stat("x", data_format, stat) on table = Table.new_matrix("x")
AddStat(data_format) ==
    /\ stat.built
    /\ nAddStat < MaxAddStat
    /\ tableRows' = AddStatResult(NewMatrixHeader("x"), tableRows, "x", data_format,
                               stat.dict)
    /\ nAddStat' = nAddStat + 1
    /\ UNCHANGED <<sample, statData, stat, got>>
    /\ UNCHANGED exceptStat

NextStats ==
    \/ NewStatistics
    \/ \E i \in 1..Len(PercentileNames), f \in Formats : Get(PercentileNames[i], f)
    \/ \E f \in Formats : AddStat(f)

SpecStats == InitStats /\ [][NextStats]_vars

(***************************************************************************)
(* HostLogReducer.dump / load / loadf (stat_latency_map_reduce.py) and the *)
(* json module.  Python values and JSON values carry their type.           *)
(***************************************************************************)
\* a Python value of type kind: "None", "bool", "int", "float", "str",
\* "list" (v: the items), "dict" (v.keys, v.vals in insertion order) or
\* "object" (v.cls, v.dict: its __dict__, a "dict")
Py(kind, v) == [py |-> kind, v |-> v]

\* a JSON value: "null", "true", "false", "integer" (digits only), "real"
\* (written with a fraction), "string", "array" or "object"
Js(kind, v) == [js |-> kind, v |-> v]

\* the text json writes for a dict key: a str as it is, any other key
\* converted to a string
KeyText(k) == IF k.py = "str" THEN k.v ELSE ToString(k.v)

\* json.dump(o, fp, default=lambda o: o.__dict__)
RECURSIVE JsonEncode(_)
JsonEncode(o) ==
    CASE o.py = "None"   -> Js("null", 0)
      [] o.py = "bool"   -> Js(IF o.v THEN "true" ELSE "false", 0)
      [] o.py = "int"    -> Js("integer", o.v)
      [] o.py = "float"  -> Js("real", o.v)
      [] o.py = "str"    -> Js("string", o.v)
      [] o.py = "list"   -> Js("array", [i \in 1..Len(o.v) |-> JsonEncode(o.v[i])])
      [] o.py = "dict"   ->
            Js("object",
               [keys |-> [i \in 1..Len(o.v.keys) |-> KeyText(o.v.keys[i])],
                vals |-> [i \in 1..Len(o.v.vals) |-> JsonEncode(o.v.vals[i])]])
      [] o.py = "object" -> JsonEncode(o.v.dict)

\* json.load reading null as the number 0
JsonScalar_NullAsZero(j) ==
    CASE j.js = "null"    -> Py("int", 0)
      [] j.js = "true"    -> Py("bool", TRUE)
      [] j.js = "false"   -> Py("bool", FALSE)
      [] j.js = "integer" -> Py("int", j.v)
      [] j.js = "real"    -> Py("float", j.v)
      [] j.js = "string"  -> Py("str", j.v)

\* json.load on a JSON value that is not an array or object
JsonScalar(j) ==
    CASE j.js = "null"    -> Py("None", 0)
      [] j.js = "true"    -> Py("bool", TRUE)
      [] j.js = "false"   -> Py("bool", FALSE)
      [] j.js = "integer" -> Py("int", j.v)
      [] j.js = "real"    -> Py("float", j.v)
      [] j.js = "string"  -> Py("str", j.v)

\* json.load(fp)
RECURSIVE JsonDecode(_)
JsonDecode(j) ==
    CASE j.js = "array"  -> Py("list", [i \in 1..Len(j.v) |-> JsonDecode(j.v[i])])
      [] j.js = "object" ->
            Py("dict",
               [keys |-> [i \in 1..Len(j.v.keys) |-> Py("str", j.v.keys[i])],
                vals |-> [i \in 1..Len(j.v.vals) |-> JsonDecode(j.v.vals[i])]])
      [] OTHER -> JsonScalar(j)

\* the empty dict
EmptyDict == Py("dict", [keys |-> <<>>, vals |-> <<>>])

\* d.get(key, default) of a Python dict d with str keys
DictGet(d, key, default) ==
    IF \E i \in 1..Len(d.v.keys) : d.v.keys[i] = Py("str", key)
    THEN d.v.vals[CHOOSE i \in 1..Len(d.v.keys) : d.v.keys[i] = Py("str", key)]
    ELSE default

\* d[k] = value
DictSet(d, k, value) ==
    IF \E i \in 1..Len(d.v.keys) : d.v.keys[i] = k
    THEN Py("dict", [keys |-> d.v.keys,
                     vals |-> [d.v.vals EXCEPT
                                 ![CHOOSE i \in 1..Len(d.v.keys) : d.v.keys[i] = k] = value]])
    ELSE Py("dict", [keys |-> Append(d.v.keys, k), vals |-> Append(d.v.vals, value)])

\* the loops of load over data["blocks"] / data["txs"]: an object of class
\* cls gets each dict as its __dict__ and is stored under its own hash
RECURSIVE LoadObjects(_, _, _)
LoadObjects(map, cls, dicts) ==
    IF dicts = <<>> THEN map
    ELSE LET object == Py("object", [cls |-> cls, dict |-> Head(dicts)])
         IN  LoadObjects(DictSet(map, DictGet(Head(dicts), "hash", Py("None", 0)), object),
                         cls, Tail(dicts))

\* HostLogReducer.load(data)
Load(json) ==
    [by_block_ratio |-> DictGet(json, "by_block_ratio", Py("list", <<>>)),
     sync_cons_gap_stats |->
        LET stats == DictGet(json, "sync_cons_gap_stats", Py("list", <<>>)).v
        IN  Py("list", [i \in 1..Len(stats) |->
                            Py("object", [cls |-> "Statistics", dict |-> stats[i]])]),
     blocks |-> LoadObjects(EmptyDict, "Block", DictGet(json, "blocks", EmptyDict).v.vals),
     txs |-> LoadObjects(EmptyDict, "Transaction", DictGet(json, "txs", EmptyDict).v.vals)]

\* the `data` dict of HostLogReducer.dump
DumpData(r) ==
    Py("dict", [keys |-> <<Py("str", "blocks"), Py("str", "sync_cons_gap_stats"),
                           Py("str", "txs"), Py("str", "by_block_ratio")>>,
                vals |-> <<r.blocks, r.sync_cons_gap_stats, r.txs, r.by_block_ratio>>])

(***************************************************************************)
(* SpecDump: a reduced HostLogReducer is dumped to a file and read back    *)
(* with loadf.                                                             *)
(***************************************************************************)
\* a Python dict with the str keys `keys` and the values `vals`
StrDict(keys, vals) ==
    Py("dict", [keys |-> [i \in 1..Len(keys) |-> Py("str", keys[i])], vals |-> vals])

\* a Python list of floats; a Null entry is None
FloatList(l) ==
    Py("list", [i \in 1..Len(l) |-> IF l[i] = Null THEN Py("None", 0)
                                    ELSE Py("float", l[i])])

\* the default latency names in the order Block.__init__ inserted them (the
\* iteration order of the set default_latency_keys())
DefaultLatencyKeySeq ==
    <<"Receive", "Sync", "Cons", "HeaderReady", "BodyReady", "SyncGraph",
      "ConsensusGraphStart", "ConsensusGraphReady", "ComputeEpoch",
      "NotifyTxPool", "TxPoolUpdated">>

\* a Block object as Block.receive and set_block_event_record leave it:
\* Sync samples `sync` and, if not empty, the samples of a custom stage
BlockObject(h, sync, custom) ==
    LET names == IF custom = <<>> THEN DefaultLatencyKeySeq
                 ELSE Append(DefaultLatencyKeySeq, CustomKey)
        lists == [i \in 1..Len(names) |->
                    IF names[i] = "Sync" THEN FloatList(sync)
                    ELSE IF names[i] = CustomKey THEN FloatList(custom)
                    ELSE FloatList(<<>>)]
    IN  Py("object",
           [cls |-> "Block",
            dict |-> StrDict(<<"hash", "parent", "timestamp", "height", "referees",
                               "txs", "size", "latencies">>,
                             <<Py("str", h), Py("str", "h0"), Py("int", 1), Py("int", 1),
                               Py("list", <<Py("str", "h0")>>), Py("int", 0), Py("int", 1),
                               StrDict(names, lists)>>)])

\* a Transaction object after Transaction.receive and merges
TransactionObject(h, received, by_block, packed, ready) ==
    Py("object",
       [cls |-> "Transaction",
        dict |-> StrDict(<<"hash", "received_timestamps", "by_block",
                           "packed_timestamps", "ready_pool_timestamps">>,
                         <<Py("str", h), FloatList(received), Py("bool", by_block),
                           FloatList(packed), FloatList(ready)>>)])

\* the object Statistics(gaps) for a list of int gaps
StatisticsObject(gaps) ==
    LET st == Statistics(gaps)
        names == SelectSeq(PercentileNames, LAMBDA p : p \in DOMAIN st)
    IN  Py("object",
           [cls |-> "Statistics",
            dict |-> StrDict(names,
                             [i \in 1..Len(names) |->
                                 IF names[i] = "Avg" THEN Py("float", st[names[i]])
                                 ELSE Py("int", st[names[i]])])])

\* the lists of distinct hashes out of set S
DistinctSeqs(S) ==
    UNION {{l \in [1..n -> S] : \A i, j \in 1..n : i # j => l[i] # l[j]} :
            n \in 0..Cardinality(S)}

\* the Block objects with hash h of a reducer
DumpBlocks(h) ==
    {BlockObject(h, sync, custom) :
        sync \in SampleLists(MaxDumpSamples), custom \in {<<>>, <<1>>}}

\* the Transaction objects with hash h of a reducer
DumpTxs(h) ==
    {TransactionObject(h, received, by_block, packed, ready) :
        received \in {<<1>>, <<MaxTs, 1>>},
        by_block \in BOOLEAN,
        packed \in {<<Null>>, <<1>>, <<1, MaxTs>>},
        ready \in {<<Null>>, <<1>>}}

\* the `blocks` / `txs` dict of a reducer: objects of `objects(h)` under
\* the hashes of list hs
ObjectMaps(hs, objects(_)) ==
    {StrDict(hs, vals) : vals \in {l \in [1..Len(hs) -> UNION {objects(hs[i]) : i \in 1..Len(hs)}] :
                                        \A i \in 1..Len(hs) :
                                            DictGet(l[i].v.dict, "hash", Py("None", 0)) = Py("str", hs[i])}}

\* the HostLogReducer objects after reduce(): one node log with gap samples
\* and one without
Reducers ==
    {[blocks |-> bm, txs |-> tm,
      sync_cons_gap_stats |->
          Py("list", <<StatisticsObject(GapSamples), StatisticsObject(<<>>)>>),
      by_block_ratio |-> FloatList(<<1>>)] :
        bm \in UNION {ObjectMaps(hs, DumpBlocks) : hs \in DistinctSeqs(Hashes)},
        tm \in UNION {ObjectMaps(hs, DumpTxs) : hs \in DistinctSeqs(TxHashes)}}

\* no file written / no reducer loaded yet
Absent == [present |-> FALSE]

InitDump ==
    /\ reducer \in Reducers
    /\ dumpFile = Absent
    /\ loaded = Absent
    /\ IdleCore
    /\ IdleCleanup
    /\ IdleLoader
    /\ IdleQuery
    /\ IdleMap
    /\ IdleStat
    /\ IdleOrder
    /\ IdleDb
    /\ IdlePort

\* reducer.dump(output_file)
Dump ==
    /\ ~dumpFile.present
    /\ dumpFile' = [present |-> TRUE, json |-> JsonEncode(DumpData(reducer))]
    /\ UNCHANGED <<reducer, loaded>>
    /\ UNCHANGED exceptDump

\* HostLogReducer.loadf(input_file)
Loadf ==
    /\ dumpFile.present
    /\ ~loaded.present
    /\ loaded' = [present |-> TRUE, reducer |-> Load(JsonDecode(dumpFile.json))]
    /\ UNCHANGED <<reducer, dumpFile>>
    /\ UNCHANGED exceptDump

NextDump ==
    \/ Dump
    \/ Loadf

SpecDump == InitDump /\ [][NextDump]_vars

(***************************************************************************)
(* SpecOrder: two host summaries, each reduced from one or two node logs,  *)
(* are folded with add_host in both orders; each aggregator then runs      *)
(* validate() and generate_latency_stat().                                 *)
(***************************************************************************)
\* HostLogReducer.__init__
NewReducer ==
    [sync_cons_gap_stats |-> <<>>, blocks |-> EmptyMap, txs |-> <<>>,
     by_block_ratio |-> <<>>]

\* HostLogReducer.reduce_one(mapper): the new value of the reducer
ReduceOne(r, mapper) ==
    [sync_cons_gap_stats |-> Append(r.sync_cons_gap_stats, Statistics(mapper.sync_cons_gaps)),
     by_block_ratio |-> r.by_block_ratio \o mapper.by_block_ratio,
     blocks |-> MergeHostBlocks(r.blocks, mapper.blocks),
     txs |-> MergeHostTxs(r.txs, mapper.txs)]

\* the NodeLogMapper results of the fold model: block h1 with its Sync
\* samples or not seen, transaction t1 received (and packed or not) or not
\* seen
OrderNodeLogs ==
    {[sync_cons_gaps |-> GapSamples, by_block_ratio |-> <<>>, blocks |-> bm, txs |-> tl] :
        bm \in {EmptyMap} \cup {[h \in {"h1"} |-> b] : b \in HostBlocksOf("h1")},
        tl \in {<<>>} \cup
               UNION {{<<NewTransaction("t1", ts, packed, Null)>> : packed \in {Null, ts}} :
                        ts \in Timestamps}}

\* the host summaries: reducers of one node log, or of two
OrderHostLogs ==
    {ReduceOne(NewReducer, m) : m \in OrderNodeLogs}
    \cup {ReduceOne(ReduceOne(NewReducer, m1), m2) : m1, m2 \in OrderNodeLogs}

\* the host the fold of `side` adds as its i-th
OrderHost(side, i) ==
    IF side = "fwd" THEN orderHosts[i] ELSE orderHosts[Len(orderHosts) + 1 - i]

InitOrder ==
    /\ orderHosts \in {<<a, b>> : a \in OrderHostLogs,
                                  b \in {ReduceOne(NewReducer, m) : m \in OrderNodeLogs}}
    /\ orderAgg = [side \in {"fwd", "bwd"} |-> NewAggregator]
    /\ orderPc = [side \in {"fwd", "bwd"} |-> "0"]
    /\ IdleCore
    /\ IdleCleanup
    /\ IdleLoader
    /\ IdleQuery
    /\ IdleMap
    /\ IdleStat
    /\ IdleDump
    /\ IdleDb
    /\ IdlePort

\* the reversed fold runs after the fold in order is done
OrderTurn(side) == side = "fwd" \/ orderPc["fwd"] = "generated"

\* add_host of the next host on one of the aggregators
OrderAddHost(side) ==
    /\ OrderTurn(side)
    /\ orderPc[side] \in {"0", "1"}
    /\ LET i == IF orderPc[side] = "0" THEN 1 ELSE 2
       IN  /\ orderAgg' = [orderAgg EXCEPT ![side] = AddHostResult(@, OrderHost(side, i))]
           /\ orderPc' = [orderPc EXCEPT ![side] = IF i = 1 THEN "1" ELSE "2"]
    /\ UNCHANGED orderHosts
    /\ UNCHANGED exceptOrder

\* validate() on one of the aggregators
OrderValidate(side) ==
    /\ OrderTurn(side)
    /\ orderPc[side] = "2"
    /\ orderAgg' = [orderAgg EXCEPT ![side] = ValidateResult(@)]
    /\ orderPc' = [orderPc EXCEPT ![side] = "validated"]
    /\ UNCHANGED orderHosts
    /\ UNCHANGED exceptOrder

\* generate_latency_stat() on one of the aggregators
OrderGenerate(side) ==
    /\ OrderTurn(side)
    /\ orderPc[side] = "validated"
    /\ orderAgg' = [orderAgg EXCEPT ![side] = GenerateLatencyStatResult(@)]
    /\ orderPc' = [orderPc EXCEPT ![side] = "generated"]
    /\ UNCHANGED orderHosts
    /\ UNCHANGED exceptOrder

NextOrder ==
    \/ \E side \in {"fwd", "bwd"} : OrderAddHost(side)
    \/ \E side \in {"fwd", "bwd"} : OrderValidate(side)
    \/ \E side \in {"fwd", "bwd"} : OrderGenerate(side)

SpecOrder == InitOrder /\ [][NextOrder]_vars

(***************************************************************************)
(* SpecPivot: the aggregator of SpecAgg fed with host logs whose block h1  *)
(* carries, besides its Sync sample, the samples of a pivot-only event     *)
(* (ComputeEpoch) and of a custom stage when the host logged them.         *)
(***************************************************************************)
\* the HostLogReducer objects of one node log each: block h1 was synced, and
\* its ComputeEpoch and custom-stage samples are present or not
PivotHostLogs ==
    {[sync_cons_gap_stats |-> <<Statistics(GapSamples)>>,
      blocks |-> [h \in {"h1"} |-> b], txs |-> <<>>, by_block_ratio |-> <<>>] :
        b \in {[NewBlock("h1") EXCEPT
                    !.latencies = [@ EXCEPT !["Sync"] = <<1>>, !["ComputeEpoch"] = ce]] :
                 ce \in SampleLists(MaxHostSamples)}
              \cup
              {[hash |-> "h1", size |-> 0,
                latencies |-> [k \in DefaultLatencyKeys \cup {CustomKey} |->
                                  IF k = "Sync" THEN <<1>>
                                  ELSE IF k = "ComputeEpoch" THEN ce
                                  ELSE IF k = CustomKey THEN cust ELSE <<>>]] :
                 ce \in SampleLists(MaxHostSamples),
                 cust \in SampleLists(MaxCustomSamples) \ {<<>>}}}

NextPivot ==
    \/ \E host \in PivotHostLogs : AddHost(host)
    \/ Validate
    \/ GenerateLatencyStat

SpecPivot == InitAgg /\ [][NextPivot]_vars

(***************************************************************************)
(* SpecDb: the DBLogAggregator over a store that holds the raw samples of  *)
(* the cluster's host summaries.  add_host, validate() and                 *)
(* generate_latency_stat(delete_after_read) run in this order; the delete  *)
(* operations the last one requests are applied by the store's writer.     *)
(* db_aggregator.py imports Percentile, BlockEventRecordType,              *)
(* default_latency_keys and only_pivot_event; they are modelled as         *)
(* data_utils.py and aggregators.py define them.                           *)
(***************************************************************************)
\* the tables of a store without rows
EmptyStore ==
    [block_meta |-> EmptyMap, block_latency |-> <<>>,
     tx_received |-> <<>>, tx_packed |-> <<>>, tx_ready |-> <<>>]

\* the concatenation of the lists f[x], x in S
RECURSIVE ConcatAll(_, _)
ConcatAll(S, f) ==
    IF S = {} THEN <<>>
    ELSE LET x == CHOOSE y \in S : TRUE
         IN  f[x] \o ConcatAll(S \ {x}, f)

\* the block_latency rows of the samples of one Block
BlockLatencyRows(b) ==
    ConcatAll(DOMAIN b.latencies,
              [k \in DOMAIN b.latencies |->
                  [i \in 1..Len(b.latencies[k]) |->
                      [block_hash |-> b.hash, lat_type |-> k, value |-> b.latencies[k][i]]]])

\* the rows of one timestamp table for the timestamps of one Transaction
TxRows(h, timestamps) ==
    LET seen == SelectSeq(timestamps, LAMBDA ts : ts # Null)
    IN  [i \in 1..Len(seen) |-> [tx_hash |-> h, ts |-> seen[i]]]

\* the store after the facts of one host summary were written to it:
\* block_meta once per hash, one row per sample and per timestamp
StoreWrite(st, host) ==
    [block_meta |-> [h \in DOMAIN st.block_meta \cup DOMAIN host.blocks |->
                        IF h \in DOMAIN st.block_meta THEN st.block_meta[h]
                        ELSE host.blocks[h].size],
     block_latency |-> st.block_latency \o
         ConcatAll(DOMAIN host.blocks,
                   [h \in DOMAIN host.blocks |-> BlockLatencyRows(host.blocks[h])]),
     tx_received |-> st.tx_received \o
         ConcatAll(1..Len(host.txs),
                   [i \in 1..Len(host.txs) |->
                       TxRows(host.txs[i].hash, host.txs[i].received_timestamps)]),
     tx_packed |-> st.tx_packed \o
         ConcatAll(1..Len(host.txs),
                   [i \in 1..Len(host.txs) |->
                       TxRows(host.txs[i].hash, host.txs[i].packed_timestamps)]),
     tx_ready |-> st.tx_ready \o
         ConcatAll(1..Len(host.txs),
                   [i \in 1..Len(host.txs) |->
                       TxRows(host.txs[i].hash, host.txs[i].ready_pool_timestamps)])]

\* the store populated with the facts of every host of the cluster
RECURSIVE StoreOf(_)
StoreOf(hs) ==
    IF hs = <<>> THEN EmptyStore
    ELSE StoreWrite(StoreOf(SubSeq(hs, 1, Len(hs) - 1)), hs[Len(hs)])

\* _process_batch on a delete_block operation that leaves the block_meta row
DbApplyOp_KeepMeta(st, op) ==
    IF op.otype = "delete_block"
    THEN [st EXCEPT !.block_latency = SelectSeq(@, LAMBDA r : r.block_hash # op.hash)]
    ELSE [st EXCEPT
            !.tx_received = SelectSeq(@, LAMBDA r : r.tx_hash # op.hash),
            !.tx_packed = SelectSeq(@, LAMBDA r : r.tx_hash # op.hash),
            !.tx_ready = SelectSeq(@, LAMBDA r : r.tx_hash # op.hash)]

\* _process_batch on a delete_block or delete_tx operation
DbApplyOp(st, op) ==
    IF op.otype = "delete_block"
    THEN [st EXCEPT
            !.block_latency = SelectSeq(@, LAMBDA r : r.block_hash # op.hash),
            !.block_meta = [h \in DOMAIN @ \ {op.hash} |-> @[h]]]
    ELSE [st EXCEPT
            !.tx_received = SelectSeq(@, LAMBDA r : r.tx_hash # op.hash),
            !.tx_packed = SelectSeq(@, LAMBDA r : r.tx_hash # op.hash),
            !.tx_ready = SelectSeq(@, LAMBDA r : r.tx_hash # op.hash)]

\* storage.get_block_latencies(block_hash)
GetBlockLatencies(st, h) ==
    LET rs == SelectSeq(st.block_latency, LAMBDA r : r.block_hash = h)
    IN  [k \in {rs[i].lat_type : i \in 1..Len(rs)} |->
            LET ks == SelectSeq(rs, LAMBDA r : r.lat_type = k)
            IN  [i \in 1..Len(ks) |-> ks[i].value]]

\* storage.get_tx_received / get_tx_packed / get_tx_ready on their table
GetTxTimestamps(table, h) ==
    LET rs == SelectSeq(table, LAMBDA r : r.tx_hash = h)
    IN  [i \in 1..Len(rs) |-> rs[i].ts]

\* storage.iter_tx_hashes()
IterTxHashes(st) ==
    {st.tx_received[i].tx_hash : i \in 1..Len(st.tx_received)}
    \cup {st.tx_packed[i].tx_hash : i \in 1..Len(st.tx_packed)}
    \cup {st.tx_ready[i].tx_hash : i \in 1..Len(st.tx_ready)}

\* max(l) of a non-empty set of numbers
Max(S) == CHOOSE v \in S : \A w \in S : w <= v

\* DBLogAggregator.add_host(host_log): the new value of the aggregator
DbAddHostResult(a, host) ==
    [a EXCEPT
        !.sync_cons_gap_stats = @ \o host.sync_cons_gap_stats,
        !.host_by_block_ratio = @ \o host.by_block_ratio]

\* DBLogAggregator.validate(): the new value of the aggregator
DbValidateResult(a) ==
    LET num_nodes == Len(a.sync_cons_gap_stats)
        count_sync(h) == IF h \in DOMAIN a.block_latency_stats["Sync"]
                         THEN a.block_latency_stats["Sync"][h].Cnt ELSE 0
        keep == {h \in DOMAIN a.blocks : ~(num_nodes # 0 /\ count_sync(h) # num_nodes)}
    IN  [a EXCEPT !.blocks = [h \in keep |-> a.blocks[h]]]

\* num_nodes of DBLogAggregator.generate_latency_stat: the host count, or the
\* largest sample count of a default key when no host was added
DbNumNodes(a, st) ==
    IF Len(a.sync_cons_gap_stats) # 0 THEN Len(a.sync_cons_gap_stats)
    ELSE Max({0} \cup UNION {{Len(GetBlockLatencies(st, h)[k]) :
                                  k \in DOMAIN GetBlockLatencies(st, h) \cap DefaultLatencyKeys} :
                                h \in DOMAIN st.block_meta})

\* the block loop of DBLogAggregator.generate_latency_stat:
\* self.block_latency_stats
DbBlockLatencyStats(a, st) ==
    LET num_nodes == DbNumNodes(a, st)
        lat_map(h) == GetBlockLatencies(st, h)
        builds(h, k) ==
            /\ k \in DOMAIN lat_map(h)
            /\ lat_map(h)[k] # <<>>
            /\ ~(/\ k \in DefaultLatencyKeys => OnlyPivotEvent(k)
                 /\ Len(lat_map(h)[k]) < (9 * num_nodes) \div 10)
        built(k) == {h \in DOMAIN st.block_meta : builds(h, k)}
        custom == {k \in UNION {DOMAIN lat_map(h) : h \in DOMAIN st.block_meta} :
                      k \notin DefaultLatencyKeys /\ built(k) # {}}
        old(k) == IF k \in DOMAIN a.block_latency_stats
                  THEN a.block_latency_stats[k] ELSE EmptyMap
    IN  [k \in DOMAIN a.block_latency_stats \cup custom |->
            [h \in DOMAIN old(k) \cup built(k) |->
                IF h \in built(k) THEN Statistics(lat_map(h)[k]) ELSE old(k)[h]]]

\* the block loop of DBLogAggregator.generate_latency_stat: self.blocks gets
\* an object built from the block_meta row of every hash
DbBlocks(a, st) ==
    [h \in DOMAIN a.blocks \cup DOMAIN st.block_meta |->
        IF h \in DOMAIN st.block_meta
        THEN [hash |-> h, size |-> st.block_meta[h]]
        ELSE a.blocks[h]]

\* one iteration of the transaction loop of
\* DBLogAggregator.generate_latency_stat
DbGenerateTx(a, st, h, num_nodes) ==
    LET received == GetTxTimestamps(st.tx_received, h)
        packed == GetTxTimestamps(st.tx_packed, h)
        ready == GetTxTimestamps(st.tx_ready, h)
        min_rcv == Min(received)
        a1 == IF Len(received) = num_nodes
              THEN [a EXCEPT !.tx_latency_stats =
                        Assign(@, h, Statistics([i \in 1..Len(received) |->
                                                    received[i] - min_rcv]))]
              ELSE a
        tx_latency == Min(packed) - min_rcv
        a2 == IF packed # <<>>
              THEN [a1 EXCEPT
                      !.tx_packed_to_block_latency =
                          Assign(@, h, Statistics([i \in 1..Len(packed) |->
                                                      packed[i] - min_rcv])),
                      !.largest_min_tx_packed_latency_hash =
                          IF @ # "None" /\ ~(a1.largest_min_tx_packed_latency_time < tx_latency)
                          THEN @ ELSE h,
                      !.largest_min_tx_packed_latency_time =
                          IF a1.largest_min_tx_packed_latency_hash # "None" /\ ~(@ < tx_latency)
                          THEN @ ELSE tx_latency,
                      !.min_tx_packed_to_block_latency = Append(@, tx_latency)]
              ELSE a1
    IN  IF received = <<>> THEN a
        ELSE IF ready # <<>>
        THEN [a2 EXCEPT !.min_tx_to_ready_pool_latency = Append(@, Min(ready) - min_rcv)]
        ELSE a2

\* the loop `for tx_hash in self.storage.iter_tx_hashes()`
RECURSIVE DbGenerateTxs(_, _, _, _)
DbGenerateTxs(a, st, S, num_nodes) ==
    IF S = {} THEN a
    ELSE LET h == CHOOSE x \in S : TRUE
         IN  DbGenerateTxs(DbGenerateTx(a, st, h, num_nodes), st, S \ {h}, num_nodes)

\* DBLogAggregator.generate_latency_stat(): the new value of the aggregator
DbGenerateResult(a, st) ==
    DbGenerateTxs([a EXCEPT !.block_latency_stats = DbBlockLatencyStats(a, st),
                            !.blocks = DbBlocks(a, st)],
                  st, IterTxHashes(st), DbNumNodes(a, st))

\* the operations generate_latency_stat(delete_after_read=True) puts on the
\* store's queue: delete_block_raw per block hash, then delete_tx_raw per
\* transaction hash
DbDeleteOps(st) ==
    ConcatAll(DOMAIN st.block_meta,
              [h \in DOMAIN st.block_meta |-> <<[otype |-> "delete_block", hash |-> h]>>])
    \o ConcatAll(IterTxHashes(st),
                 [h \in IterTxHashes(st) |-> <<[otype |-> "delete_tx", hash |-> h]>>])

\* the node logs of the cluster: block h1 seen with no or one Sync sample, or
\* not seen; transaction t1 received at 1 or 2 and packed then or not, or not
\* seen
DbNodeLogs ==
    {[sync_cons_gaps |-> GapSamples, by_block_ratio |-> <<>>, blocks |-> bm, txs |-> tl] :
        bm \in {EmptyMap} \cup
               {[h \in {"h1"} |-> [NewBlock("h1") EXCEPT
                                     !.latencies = [@ EXCEPT !["Sync"] = sync]]] :
                  sync \in SampleLists(1)},
        tl \in {<<>>} \cup
               UNION {{<<NewTransaction("t1", ts, packed, Null)>> : packed \in {Null, ts}} :
                        ts \in 1..2}}

\* the host summaries of one node log each
DbHostLogs == {ReduceOne(NewReducer, m) : m \in DbNodeLogs}

InitDb ==
    /\ dbHosts \in UNION {[1..n -> DbHostLogs] : n \in 1..MaxDbHosts}
    /\ dbStore = StoreOf(dbHosts)
    /\ dbQueue = <<>>
    /\ dbAgg = NewAggregator
    /\ dbAdded = 0
    /\ dbPhase = "adding"
    /\ dbDeleteAfterRead = FALSE
    /\ IdleCore
    /\ IdleCleanup
    /\ IdleLoader
    /\ IdleQuery
    /\ IdleMap
    /\ IdleStat
    /\ IdleDump
    /\ IdleOrder
    /\ IdlePort

\* agg.add_host(host) for the next host of the cluster
DbAddHost ==
    /\ dbPhase = "adding"
    /\ dbAdded < Len(dbHosts)
    /\ dbAgg' = DbAddHostResult(dbAgg, dbHosts[dbAdded + 1])
    /\ dbAdded' = dbAdded + 1
    /\ UNCHANGED <<dbHosts, dbStore, dbQueue, dbPhase, dbDeleteAfterRead>>
    /\ UNCHANGED exceptDb

\* agg.validate(), once every host was added
DbValidate ==
    /\ dbPhase = "adding"
    /\ dbAdded = Len(dbHosts)
    /\ dbAgg' = DbValidateResult(dbAgg)
    /\ dbPhase' = "validated"
    /\ UNCHANGED <<dbHosts, dbStore, dbQueue, dbAdded, dbDeleteAfterRead>>
    /\ UNCHANGED exceptDb

\* agg.generate_latency_stat(delete_after_read)
DbGenerate(delete_after_read) ==
    /\ dbPhase = "validated"
    /\ dbAgg' = DbGenerateResult(dbAgg, dbStore)
    /\ dbQueue' = IF delete_after_read THEN DbDeleteOps(dbStore) ELSE <<>>
    /\ dbDeleteAfterRead' = delete_after_read
    /\ dbPhase' = "generated"
    /\ UNCHANGED <<dbHosts, dbStore, dbAdded>>
    /\ UNCHANGED exceptDb

\* the store's writer applies the next queued operation
DbWriterApply ==
    /\ dbQueue # <<>>
    /\ dbStore' = DbApplyOp(dbStore, Head(dbQueue))
    /\ dbQueue' = Tail(dbQueue)
    /\ UNCHANGED <<dbHosts, dbAgg, dbAdded, dbPhase, dbDeleteAfterRead>>
    /\ UNCHANGED exceptDb

NextDb ==
    \/ DbAddHost
    \/ DbValidate
    \/ \E delete_after_read \in BOOLEAN : DbGenerate(delete_after_read)
    \/ DbWriterApply

SpecDb == InitDb /\ [][NextDb]_vars

(***************************************************************************)
(* SpecPorts: NodeManager.collect_node_info called on server instances.    *)
(***************************************************************************)
\* the defaults of base_port, base_rpc_port and base_p2p_port
BasePort == 12537
BaseRpcPort == 12539
BaseP2pPort == 12538

\* the ids of the server instances
InstanceIds == {"inst-1", "inst-2", "inst-3"}

\* the offset collect_node_info allocates to an instance without one: one
\* block after the largest offset in use, 0 when none is
NextOffset(allocations, block) ==
    IF DOMAIN allocations = {} THEN 0
    ELSE Max({allocations[i] : i \in DOMAIN allocations}) + block

\* the NodeInfo of node i of an instance (the fields that hold ports)
NodeInfo(instance_id, offset, i) ==
    [node_id |-> <<instance_id, i>>, instance_id |-> instance_id,
     port |-> BasePort + offset + i,
     rpc_port |-> BaseRpcPort + offset + i,
     p2p_port |-> BaseP2pPort + offset + i,
     status |-> "pending"]

InitPorts ==
    /\ ports_block \in 1..MaxPortsBlock
    /\ nodes = EmptyMap
    /\ instance_nodes = EmptyMap
    /\ port_allocations = EmptyMap
    /\ state_file = <<>>
    /\ nCollect = 0
    /\ IdleCore
    /\ IdleCleanup
    /\ IdleLoader
    /\ IdleQuery
    /\ IdleMap
    /\ IdleStat
    /\ IdleDump
    /\ IdleOrder
    /\ IdleDb

\* collect_node_info(instance), instance having the given id and nodes_count
CollectNodeInfo(instance_id, nodes_count) ==
    /\ nCollect < MaxCollect
    /\ LET allocations == IF instance_id \in DOMAIN port_allocations
                          THEN port_allocations
                          ELSE Assign(port_allocations, instance_id,
                                      NextOffset(port_allocations, ports_block))
           node_info_list == [k \in 1..nodes_count |->
                                 NodeInfo(instance_id, allocations[instance_id], k - 1)]
           ids == {node_info_list[k].node_id : k \in 1..nodes_count}
       IN  /\ port_allocations' = allocations
           /\ nodes' = [id \in DOMAIN nodes \cup ids |->
                           IF id \in ids THEN node_info_list[id[2] + 1] ELSE nodes[id]]
           /\ instance_nodes' = Assign(instance_nodes, instance_id,
                                       [k \in 1..nodes_count |-> node_info_list[k].node_id])
           /\ state_file' = [nodes |-> nodes', instance_nodes |-> instance_nodes',
                             port_allocations |-> port_allocations']
    /\ nCollect' = nCollect + 1
    /\ UNCHANGED ports_block
    /\ UNCHANGED exceptPort

NextPorts ==
    \E instance_id \in InstanceIds, nodes_count \in 0..MaxNodesCount :
        CollectNodeInfo(instance_id, nodes_count)

SpecPorts == InitPorts /\ [][NextPorts]_vars

(***************************************************************************)
(* SpecMapper: HostLogReducer.reduced reads the node logs of one host.  A  *)
(* NodeLogMapper reads its file line by line with parse_log_line; the      *)
(* finished mapper is folded into the reducer with reduce_one.  A line     *)
(* carries one marker phrase and the fields the parser looks for.          *)
(***************************************************************************)
\* the divisor of BlockEventRecord.__init__ (microseconds to seconds)
BASE == 1000000

\* the keys BlockEventRecord.__init__ reads with records[...]
RequiredKeys ==
    {"hash", "header_ready", "body_ready", "sync_graph",
     "consensys_graph_insert", "consensys_graph_ready"}

\* the "key: value" items of a complete "Block events record" line of block
\* h: cumulative stage counters in microseconds
FullRecords(h) ==
    [k \in RequiredKeys |->
        CASE k = "hash" -> h
          [] k = "header_ready" -> 1 * BASE
          [] k = "body_ready" -> 2 * BASE
          [] k = "sync_graph" -> 3 * BASE
          [] k = "consensys_graph_insert" -> 4 * BASE
          [] k = "consensys_graph_ready" -> 5 * BASE]

\* "transaction received by block" lines, with or without "ratio="
RatioLines ==
    {[marker |-> "transaction received by block", has |-> f, ratio |-> 1] :
        f \in BOOLEAN}

\* the three block lines: header, tx_count and block_size present, or a
\* field missing
BlockLines ==
    {[marker |-> mk, has |-> TRUE, hash |-> "h1", latency |-> s, block_size |-> sz] :
        mk \in {"new block received", "new block inserted into graph",
                "insert new block into consensus"},
        s \in Samples, sz \in 0..MaxBlockSize}
    \cup
    {[marker |-> mk, has |-> FALSE, hash |-> "h1", latency |-> 1, block_size |-> 0] :
        mk \in {"new block received", "new block inserted into graph",
                "insert new block into consensus"}}

\* "Block events record complete" lines: with every item, with the item
\* body_ready missing, and with nothing after the marker (the pattern of
\* BlockEventRecord.parse does not match)
EventLines ==
    {[marker |-> "Block events record complete", matches |-> TRUE,
      records |-> FullRecords("h1")],
     [marker |-> "Block events record complete", matches |-> TRUE,
      records |-> [k \in RequiredKeys \ {"body_ready"} |-> FullRecords("h1")[k]]],
     [marker |-> "Block events record complete", matches |-> FALSE,
      records |-> EmptyMap]}

\* "Statistics" lines: both inserted_block_count fields, or one missing
StatisticsLines ==
    {[marker |-> "Statistics", has |-> TRUE, sync_len |-> s, cons_len |-> c] :
        s \in 0..MaxBlockCount, c \in 0..MaxBlockCount}
    \cup {[marker |-> "Statistics", has |-> FALSE, sync_len |-> 0, cons_len |-> 0]}

\* "Sampled transaction" lines: hash, timestamp and where it was seen, or
\* the hash not terminated
TransactionLines ==
    {[marker |-> "Sampled transaction", has |-> TRUE, hash |-> "t1", ts |-> t, seen |-> w] :
        t \in Timestamps, w \in {"in block", "in ready pool", "in packing block"}}
    \cup {[marker |-> "Sampled transaction", has |-> FALSE, hash |-> "t1", ts |-> 1,
           seen |-> "in block"]}

LogLines == RatioLines \cup BlockLines \cup EventLines \cup StatisticsLines \cup TransactionLines

\* no line read yet
NoLine == [marker |-> "none"]

\* a line that names a marker and lacks a field the marker reads
LacksField(line) ==
    IF line.marker = "none" THEN FALSE
    ELSE IF line.marker = "Block events record complete"
         THEN ~line.matches \/ ~(RequiredKeys \subseteq DOMAIN line.records)
         ELSE ~line.has

\* NodeLogMapper.__init__
NewMapper ==
    [blocks |-> EmptyMap, txs |-> <<>>, by_block_ratio |-> <<>>, sync_cons_gaps |-> <<>>]

\* how a call of parse_log_line ends, and the mapper it leaves
Returned(m) == [mapper |-> m, outcome |-> "return"]
Raised(m) == [mapper |-> m, outcome |-> "raise"]

\* the BlockLatencyType a marker stands for
LatencyTypeOf(marker) ==
    CASE marker = "new block received" -> "Receive"
      [] marker = "new block inserted into graph" -> "Sync"
      [] marker = "insert new block into consensus" -> "Cons"

\* Block.receive(log_line, latency_type)
BlockReceive(line, latency_type) ==
    [NewBlock(line.hash) EXCEPT
        !.size = IF latency_type # "Cons" THEN line.block_size ELSE 0,
        !.latencies = [@ EXCEPT ![latency_type] = <<line.latency>>]]

\* BlockEventRecord.__init__: self.records, the stage durations in seconds
BlockEventRecordOf(records) ==
    [hash |-> records["hash"],
     records |->
        [t \in {"HeaderReady", "BodyReady", "SyncGraph", "ConsensusGraphStart",
                "ConsensusGraphReady"} |->
            CASE t = "HeaderReady" -> records["header_ready"] \div BASE
              [] t = "BodyReady" ->
                    (records["body_ready"] - records["header_ready"]) \div BASE
              [] t = "SyncGraph" ->
                    (records["sync_graph"] - records["body_ready"]) \div BASE
              [] t = "ConsensusGraphStart" ->
                    (records["consensys_graph_insert"] - records["sync_graph"]) \div BASE
              [] t = "ConsensusGraphReady" ->
                    (records["consensys_graph_ready"]
                        - records["consensys_graph_insert"]) \div BASE]]

\* Block.set_block_event_record(record): the new value of the block
SetBlockEventRecord(block, record) ==
    IF block.hash # record.hash THEN block
    ELSE [block EXCEPT !.latencies =
            [k \in DOMAIN @ \cup DOMAIN record.records |->
                IF k \notin DOMAIN record.records THEN @[k]
                ELSE IF k \notin DOMAIN @ THEN <<record.records[k]>>
                ELSE Append(@[k], record.records[k])]]

\* Transaction.receive(log_line)
TransactionReceive(line) ==
    IF line.seen = "in block" THEN NewTransaction(line.hash, line.ts, Null, Null)
    ELSE IF line.seen = "in ready pool"
         THEN NewTransaction(line.hash, line.ts, Null, line.ts)
    ELSE IF line.seen = "in packing block"
         THEN NewTransaction(line.hash, line.ts, line.ts, Null)
    ELSE NewTransaction(line.hash, line.ts, Null, Null)

\* Transaction.add_or_replace done as add_or_merge does it: the timestamps
\* of the line are appended to those of the entry
TransactionAddOrReplace_Merging(txs, tx) ==
    IF TxIndex(txs, tx.hash) = 0
    THEN Append(txs, tx)
    ELSE [txs EXCEPT ![TxIndex(txs, tx.hash)] = TransactionMerge(@, tx)]

\* Transaction.add_or_replace(txs, tx).  When tx was received earlier than
\* the entry, tx becomes the entry and its first packed / ready timestamp is
\* overwritten with the old entry's (also with None); the two trailing `if`s
\* then read tx, which is the entry itself, and change nothing.
TransactionAddOrReplace(txs, tx) ==
    LET i == TxIndex(txs, tx.hash)
    IN  IF i = 0 THEN Append(txs, tx)
        ELSE IF tx.received_timestamps[1] < txs[i].received_timestamps[1]
        THEN [txs EXCEPT ![i] =
                [tx EXCEPT
                    !.packed_timestamps = [@ EXCEPT ![1] = txs[i].packed_timestamps[1]],
                    !.ready_pool_timestamps =
                        [@ EXCEPT ![1] = txs[i].ready_pool_timestamps[1]]]]
        ELSE [txs EXCEPT ![i] =
                [@ EXCEPT
                    !.packed_timestamps =
                        IF tx.packed_timestamps[1] # Null
                        THEN [@ EXCEPT ![1] = tx.packed_timestamps[1]] ELSE @,
                    !.ready_pool_timestamps =
                        IF tx.ready_pool_timestamps[1] # Null
                        THEN [@ EXCEPT ![1] = tx.ready_pool_timestamps[1]] ELSE @]]

\* the "transaction received by block" branch: parse_value raises
\* ValueError when "ratio=" is not in the line
ParseRatio(m, line) ==
    IF ~line.has THEN Raised(m)
    ELSE Returned([m EXCEPT !.by_block_ratio = Append(@, line.ratio)])

\* the three block branches: Block.receive raises when a field is missing
ParseBlock(m, line) ==
    IF ~line.has THEN Raised(m)
    ELSE Returned([m EXCEPT !.blocks =
            BlockAddOrMerge(@, BlockReceive(line, LatencyTypeOf(line.marker)))])

\* the "Block events record" branch: parse returns None when its pattern
\* does not match, __init__ raises KeyError on a missing item, and the
\* record is applied only to a block the mapper holds
ParseEvents(m, line) ==
    IF ~line.matches THEN Returned(m)
    ELSE IF ~(RequiredKeys \subseteq DOMAIN line.records) THEN Raised(m)
    ELSE LET records == BlockEventRecordOf(line.records)
         IN  IF records.hash \in DOMAIN m.blocks
             THEN Returned([m EXCEPT !.blocks[records.hash] =
                                SetBlockEventRecord(@, records)])
             ELSE Returned(m)

\* the "Statistics" branch without its assert: the difference is appended
\* whatever its sign
ParseStatistics_NoAssert(m, line) ==
    IF ~line.has THEN Raised(m)
    ELSE Returned([m EXCEPT !.sync_cons_gaps = Append(@, line.sync_len - line.cons_len)])

\* the "Statistics" branch: parse_value raises on a missing field, the
\* assert raises when sync_len < cons_len
ParseStatistics(m, line) ==
    IF ~line.has THEN Raised(m)
    ELSE IF ~(line.sync_len >= line.cons_len) THEN Raised(m)
    ELSE Returned([m EXCEPT !.sync_cons_gaps = Append(@, line.sync_len - line.cons_len)])

\* the "Sampled transaction" branch
ParseTransaction(m, line) ==
    IF ~line.has THEN Raised(m)
    ELSE Returned([m EXCEPT !.txs = TransactionAddOrReplace(@, TransactionReceive(line))])

\* NodeLogMapper.parse_log_line(line) on mapper m
ParseLogLine(m, line) ==
    CASE line.marker = "transaction received by block" -> ParseRatio(m, line)
      [] line.marker \in {"new block received", "new block inserted into graph",
                          "insert new block into consensus"} -> ParseBlock(m, line)
      [] line.marker = "Block events record complete" -> ParseEvents(m, line)
      [] line.marker = "Statistics" -> ParseStatistics(m, line)
      [] line.marker = "Sampled transaction" -> ParseTransaction(m, line)

InitMapper ==
    /\ nodeMapper = NewMapper
    /\ mapPc = "mapping"
    /\ mapLine = NoLine
    /\ mapOutcome = "none"
    /\ hostReducer = NewReducer
    /\ nNodeLogs = 0
    /\ nLogLines = 0
    /\ txSeen = 0
    /\ txEarliest = 0
    /\ IdleCore
    /\ IdleCleanup
    /\ IdleLoader
    /\ IdleQuery
    /\ IdleStat
    /\ IdleDump
    /\ IdleOrder
    /\ IdleDb
    /\ IdlePort

\* map(): the next line of the file goes through parse_log_line; an
\* exception ends map(), and future.result() raises it in reduced()
MapParseLogLine(line) ==
    /\ mapPc = "mapping"
    /\ nNodeLogs < MaxNodeLogs
    /\ nLogLines < MaxLogLines
    /\ LET r == ParseLogLine(nodeMapper, line)
           folded == line.marker = "Sampled transaction" /\ r.outcome = "return"
       IN  /\ nodeMapper' = r.mapper
           /\ mapOutcome' = r.outcome
           /\ mapPc' = IF r.outcome = "raise" THEN "raised" ELSE "mapping"
           /\ txSeen' = IF folded THEN txSeen + 1 ELSE txSeen
           /\ txEarliest' = IF folded
                            THEN (IF txSeen = 0 \/ line.ts < txEarliest
                                  THEN line.ts ELSE txEarliest)
                            ELSE txEarliest
    /\ mapLine' = line
    /\ nLogLines' = nLogLines + 1
    /\ UNCHANGED <<hostReducer, nNodeLogs>>
    /\ UNCHANGED exceptMap

\* the file is read to its end: reduced() folds the mapper with reduce_one
\* and the mapper of the next file starts
MapReduceOne ==
    /\ mapPc = "mapping"
    /\ nNodeLogs < MaxNodeLogs
    /\ hostReducer' = ReduceOne(hostReducer, nodeMapper)
    /\ nNodeLogs' = nNodeLogs + 1
    /\ nodeMapper' = NewMapper
    /\ mapLine' = NoLine
    /\ mapOutcome' = "none"
    /\ txSeen' = 0
    /\ txEarliest' = 0
    /\ UNCHANGED <<mapPc, nLogLines>>
    /\ UNCHANGED exceptMap

NextMapper ==
    \/ \E line \in LogLines : MapParseLogLine(line)
    \/ MapReduceOne

SpecMapper == InitMapper /\ [][NextMapper]_vars

(***************************************************************************)
(* SpecQuery: hosts are folded into an InMemoryLogAggregator, validate()   *)
(* and generate_latency_stat() run, and then the stat_* methods are        *)
(* called, as LogAnalyzer does when it fills its tables.                   *)
(***************************************************************************)
\* the host summaries folded: one node log each, with its by-block ratio,
\* block h1 synced or not seen, transaction t1 received at ts and packed at
\* or after ts, or not seen
QueryHostLogs ==
    {[sync_cons_gap_stats |-> <<Statistics(GapSamples)>>, by_block_ratio |-> <<r>>,
      blocks |-> bm, txs |-> tl] :
        r \in Samples,
        bm \in {EmptyMap,
                [h \in {"h1"} |-> [NewBlock("h1") EXCEPT !.latencies["Sync"] = <<1>>]]},
        tl \in {<<>>} \cup
               UNION {{<<NewTransaction("t1", ts, packed, Null)>> :
                          packed \in {Null} \cup {t \in Timestamps : t >= ts}} :
                        ts \in Timestamps}}

\* the Percentile members the queries ask for
QueryPercentiles == {"Min", "Max"}

\* what a stat_* call gives back
Gives(s) == [outcome |-> "return", stat |-> s]
NoQuery == [outcome |-> "none", stat |-> EmptyMap]

\* the values of a dict, in some order
ValuesOf(f) ==
    LET ks == CHOOSE l \in [1..Cardinality(DOMAIN f) -> DOMAIN f] :
                  \A i, j \in 1..Cardinality(DOMAIN f) : i # j => l[i] # l[j]
    IN  [i \in 1..Cardinality(DOMAIN f) |-> f[ks[i]]]

\* the loop `for s in stats: data.append(s.get(p))` followed by
\* Statistics(data): stats is a list of Statistics, data a new list; get
\* raises KeyError on a Statistics without the field
StatOfStats(stats, p) ==
    IF \E i \in 1..Len(stats) : p \notin DOMAIN stats[i]
    THEN [outcome |-> "KeyError", stat |-> EmptyMap]
    ELSE Gives(Statistics([i \in 1..Len(stats) |-> stats[i][p]]))

InitQuery ==
    /\ queryAgg = NewAggregator
    /\ queryPc = "adding"
    /\ queryResult = NoQuery
    /\ nQueryHosts = 0
    /\ nQueries = 0
    /\ IdleCore
    /\ IdleCleanup
    /\ IdleLoader
    /\ IdleStat
    /\ IdleDump
    /\ IdleOrder
    /\ IdleDb
    /\ IdlePort
    /\ IdleMap

\* agg.add_host(host)
QueryAddHost(host) ==
    /\ queryPc = "adding"
    /\ nQueryHosts < MaxQueryHosts
    /\ queryAgg' = AddHostResult(queryAgg, host)
    /\ nQueryHosts' = nQueryHosts + 1
    /\ UNCHANGED <<queryPc, queryResult, nQueries>>
    /\ UNCHANGED exceptQuery

\* agg.validate()
QueryValidate ==
    /\ queryPc = "adding"
    /\ queryAgg' = ValidateResult(queryAgg)
    /\ queryPc' = "validated"
    /\ UNCHANGED <<queryResult, nQueryHosts, nQueries>>
    /\ UNCHANGED exceptQuery

\* agg.generate_latency_stat()
QueryGenerate ==
    /\ queryPc = "validated"
    /\ queryAgg' = GenerateLatencyStatResult(queryAgg)
    /\ queryPc' = "generated"
    /\ UNCHANGED <<queryResult, nQueryHosts, nQueries>>
    /\ UNCHANGED exceptQuery

\* agg.stat_sync_cons_gap(p): the method builds its own list `data`, the aggregator is
\* only read
StatSyncConsGap(p) ==
    /\ queryPc = "generated"
    /\ nQueries < MaxQueries
    /\ queryResult' = StatOfStats(queryAgg.sync_cons_gap_stats, p)
    /\ nQueries' = nQueries + 1
    /\ UNCHANGED <<queryAgg, queryPc, nQueryHosts>>
    /\ UNCHANGED exceptQuery

\* agg.stat_block_latency(t, p): the method builds its own list `data`, the aggregator is
\* only read
StatBlockLatency(t, p) ==
    /\ queryPc = "generated"
    /\ nQueries < MaxQueries
    /\ queryResult' = StatOfStats(ValuesOf(queryAgg.block_latency_stats[t]), p)
    /\ nQueries' = nQueries + 1
    /\ UNCHANGED <<queryAgg, queryPc, nQueryHosts>>
    /\ UNCHANGED exceptQuery

\* agg.stat_tx_latency(p): the method builds its own list `data`, the aggregator is
\* only read
StatTxLatency(p) ==
    /\ queryPc = "generated"
    /\ nQueries < MaxQueries
    /\ queryResult' = StatOfStats(ValuesOf(queryAgg.tx_latency_stats), p)
    /\ nQueries' = nQueries + 1
    /\ UNCHANGED <<queryAgg, queryPc, nQueryHosts>>
    /\ UNCHANGED exceptQuery

\* agg.stat_tx_packed_to_block_latency(p): the method builds its own list `data`, the aggregator is
\* only read
StatTxPackedToBlockLatency(p) ==
    /\ queryPc = "generated"
    /\ nQueries < MaxQueries
    /\ queryResult' = StatOfStats(ValuesOf(queryAgg.tx_packed_to_block_latency), p)
    /\ nQueries' = nQueries + 1
    /\ UNCHANGED <<queryAgg, queryPc, nQueryHosts>>
    /\ UNCHANGED exceptQuery

\* agg.stat_min_tx_packed_to_block_latency(): Statistics() gets the aggregator's own list and
\* sorts it in place
StatMinTxPackedToBlockLatency ==
    /\ queryPc = "generated"
    /\ nQueries < MaxQueries
    /\ queryResult' = Gives(Statistics(queryAgg.min_tx_packed_to_block_latency))
    /\ queryAgg' = [queryAgg EXCEPT !.min_tx_packed_to_block_latency = SortedInPlace(@)]
    /\ nQueries' = nQueries + 1
    /\ UNCHANGED <<queryPc, nQueryHosts>>
    /\ UNCHANGED exceptQuery

\* agg.stat_min_tx_to_ready_pool_latency(): Statistics() gets the aggregator's own list and
\* sorts it in place
StatMinTxToReadyPoolLatency ==
    /\ queryPc = "generated"
    /\ nQueries < MaxQueries
    /\ queryResult' = Gives(Statistics(queryAgg.min_tx_to_ready_pool_latency))
    /\ queryAgg' = [queryAgg EXCEPT !.min_tx_to_ready_pool_latency = SortedInPlace(@)]
    /\ nQueries' = nQueries + 1
    /\ UNCHANGED <<queryPc, nQueryHosts>>
    /\ UNCHANGED exceptQuery

\* agg.stat_tx_ratio(): Statistics() gets the aggregator's own list and
\* sorts it in place
StatTxRatio ==
    /\ queryPc = "generated"
    /\ nQueries < MaxQueries
    /\ queryResult' = Gives(Statistics(queryAgg.host_by_block_ratio))
    /\ queryAgg' = [queryAgg EXCEPT !.host_by_block_ratio = SortedInPlace(@)]
    /\ nQueries' = nQueries + 1
    /\ UNCHANGED <<queryPc, nQueryHosts>>
    /\ UNCHANGED exceptQuery

\* agg.stat_tx_wait_to_be_packed(): Statistics() gets the aggregator's own list and
\* sorts it in place
StatTxWaitToBePacked ==
    /\ queryPc = "generated"
    /\ nQueries < MaxQueries
    /\ queryResult' = Gives(Statistics(queryAgg.tx_wait_to_be_packed_time))
    /\ queryAgg' = [queryAgg EXCEPT !.tx_wait_to_be_packed_time = SortedInPlace(@)]
    /\ nQueries' = nQueries + 1
    /\ UNCHANGED <<queryPc, nQueryHosts>>
    /\ UNCHANGED exceptQuery

NextQuery ==
    \/ \E host \in QueryHostLogs : QueryAddHost(host)
    \/ QueryValidate
    \/ QueryGenerate
    \/ \E p \in QueryPercentiles : StatSyncConsGap(p)
    \/ \E t \in {"Sync", "Cons"}, p \in QueryPercentiles : StatBlockLatency(t, p)
    \/ \E p \in QueryPercentiles : StatTxLatency(p)
    \/ \E p \in QueryPercentiles : StatTxPackedToBlockLatency(p)
    \/ StatMinTxPackedToBlockLatency
    \/ StatMinTxToReadyPoolLatency
    \/ StatTxRatio
    \/ StatTxWaitToBePacked

SpecQuery == InitQuery /\ [][NextQuery]_vars

(***************************************************************************)
(* SpecLoader: LogDirectoryLoader.load submits one HostLogReducer.loadf    *)
(* per host file to a thread pool and folds the results with add_host in   *)
(* the calling thread, in the order as_completed yields them.              *)
(***************************************************************************)
\* the host files a logs directory can hold
LoadFiles == 1..MaxLoadFiles

\* the future of file f has finished: it holds a result or an exception
Finished(f) == futures[f] \in {"done", "failed"}

\* as_completed(futures) taken as a plain walk over the list: a future is
\* handed out whether or not it has finished
CanYield_Unfinished(f) == f \notin loadYielded

\* as_completed(futures) can yield f next: f has finished and was not
\* yielded before
CanYield(f) == Finished(f) /\ f \notin loadYielded

\* the futures the pool is running
Running == {f \in loadFiles : futures[f] = "running"}

InitLoader ==
    /\ loadFiles \in SUBSET LoadFiles
    /\ max_workers \in 1..MaxWorkers
    /\ futures = [f \in loadFiles |-> "pending"]
    /\ loadPc = "as_completed"
    /\ loadHost = 0
    /\ loadYielded = {}
    /\ loadAdded = <<>>
    /\ loadActive = {}
    /\ IdleCore
    /\ IdleCleanup
    /\ IdleStat
    /\ IdleDump
    /\ IdleOrder
    /\ IdleDb
    /\ IdlePort
    /\ IdleMap
    /\ IdleQuery

\* a free worker thread of the pool takes a submitted call
WorkerStart(f) ==
    /\ f \in loadFiles
    /\ futures[f] = "pending"
    /\ Cardinality(Running) < max_workers
    /\ futures' = [futures EXCEPT ![f] = "running"]
    /\ UNCHANGED <<loadFiles, max_workers, loadPc, loadHost, loadYielded, loadAdded,
                   loadActive>>
    /\ UNCHANGED exceptLoader

\* HostLogReducer.loadf(log_file) returns the reducer in its worker thread
WorkerReturn(f) ==
    /\ f \in loadFiles
    /\ futures[f] = "running"
    /\ futures' = [futures EXCEPT ![f] = "done"]
    /\ UNCHANGED <<loadFiles, max_workers, loadPc, loadHost, loadYielded, loadAdded,
                   loadActive>>
    /\ UNCHANGED exceptLoader

\* HostLogReducer.loadf(log_file) raises in its worker thread (the file is
\* not valid JSON): the future keeps the exception
WorkerRaise(f) ==
    /\ f \in loadFiles
    /\ futures[f] = "running"
    /\ futures' = [futures EXCEPT ![f] = "failed"]
    /\ UNCHANGED <<loadFiles, max_workers, loadPc, loadHost, loadYielded, loadAdded,
                   loadActive>>
    /\ UNCHANGED exceptLoader

\* `for future in as_completed(futures)` yields f and future.result() gives
\* its reducer, or raises its exception out of load()
LoadResult(f) ==
    /\ loadPc = "as_completed"
    /\ f \in loadFiles
    /\ CanYield(f)
    /\ loadYielded' = loadYielded \cup {f}
    /\ loadHost' = f
    /\ loadPc' = IF futures[f] = "failed" THEN "raised" ELSE "add_host"
    /\ UNCHANGED <<loadFiles, max_workers, futures, loadAdded, loadActive>>
    /\ UNCHANGED exceptLoader

\* agg.add_host(host) is entered by the thread that called load()
LoadAddHost ==
    /\ loadPc = "add_host"
    /\ loadAdded' = Append(loadAdded, loadHost)
    /\ loadActive' = loadActive \cup {loadHost}
    /\ loadPc' = "in_add_host"
    /\ UNCHANGED <<loadFiles, max_workers, futures, loadHost, loadYielded>>
    /\ UNCHANGED exceptLoader

\* agg.add_host(host) returns, `del host`, and the loop asks for the next
\* future
LoadAddHostReturn ==
    /\ loadPc = "in_add_host"
    /\ loadActive' = loadActive \ {loadHost}
    /\ loadPc' = "as_completed"
    /\ UNCHANGED <<loadFiles, max_workers, futures, loadHost, loadYielded, loadAdded>>
    /\ UNCHANGED exceptLoader

\* as_completed is exhausted: executor.shutdown() and `return agg`
LoadReturn ==
    /\ loadPc = "as_completed"
    /\ loadYielded = loadFiles
    /\ loadPc' = "returned"
    /\ UNCHANGED <<loadFiles, max_workers, futures, loadHost, loadYielded, loadAdded,
                   loadActive>>
    /\ UNCHANGED exceptLoader

NextLoader ==
    \/ \E f \in LoadFiles : WorkerStart(f)
    \/ \E f \in LoadFiles : WorkerReturn(f)
    \/ \E f \in LoadFiles : WorkerRaise(f)
    \/ \E f \in LoadFiles : LoadResult(f)
    \/ LoadAddHost
    \/ LoadAddHostReturn
    \/ LoadReturn

SpecLoader == InitLoader /\ [][NextLoader]_vars

\* ==========================================================================
\* Forced cleanup of cloud instances by naming pattern
\* (src/conflux_deployer/resource_cleanup/manager.py,
\*  src/conflux_deployer/utils/naming.py)
\*
\* A string is a sequence of characters; the two words of the fixed prefix
\* are single elements, since nothing in the model splits them.
\* ==========================================================================

INSTANCE_NAME_FIXED_PREFIX == <<"conflux", "-", "deployer">>

\* the characters outside [a-zA-Z0-9-] that the inputs contain
OtherChars == {" ", "_"}

\* str.strip(): the characters Python counts as whitespace
Whitespace == {" "}

RECURSIVE LStrip(_, _)
LStrip(s, chars) ==
    IF s # <<>> /\ Head(s) \in chars THEN LStrip(Tail(s), chars) ELSE s

RECURSIVE RStrip(_, _)
RStrip(s, chars) ==
    IF s # <<>> /\ s[Len(s)] \in chars
    THEN RStrip(SubSeq(s, 1, Len(s) - 1), chars)
    ELSE s

\* value.strip(chars)
Strip(s, chars) == RStrip(LStrip(s, chars), chars)

\* re.sub(pattern + "+", "-", s): every maximal run of characters of the
\* class becomes one hyphen
RECURSIVE SubRuns(_, _)
SubRuns(s, class) ==
    IF s = <<>> THEN <<>>
    ELSE IF Head(s) \in class
         THEN <<"-">> \o SubRuns(LStrip(Tail(s), class), class)
         ELSE <<Head(s)>> \o SubRuns(Tail(s), class)

\* _sanitize_component: strip, replace the runs of other characters by a
\* hyphen, collapse the runs of hyphens, strip the hyphens at the ends
SanitizeComponent(value) ==
    Strip(SubRuns(SubRuns(Strip(value, Whitespace), OtherChars), {"-"}), {"-"})

\* "-".join(parts)
RECURSIVE JoinHyphen(_)
JoinHyphen(parts) ==
    IF parts = <<>> THEN <<>>
    ELSE IF Len(parts) = 1 THEN Head(parts)
    ELSE Head(parts) \o <<"-">> \o JoinHyphen(Tail(parts))

\* the elements of a list that are not empty, in order
RECURSIVE NonEmptyParts(_)
NonEmptyParts(parts) ==
    IF parts = <<>> THEN <<>>
    ELSE IF Head(parts) = <<>> THEN NonEmptyParts(Tail(parts))
    ELSE <<Head(parts)>> \o NonEmptyParts(Tail(parts))

\* build_instance_name_prefix(deployment_id, region_id, user_prefix)
build_instance_name_prefix(deployment_id, region_id, user_prefix) ==
    LET u == IF user_prefix # <<>> THEN SanitizeComponent(user_prefix) ELSE <<>>
        parts == <<INSTANCE_NAME_FIXED_PREFIX, u,
                   SanitizeComponent(deployment_id), SanitizeComponent(region_id)>>
    IN  JoinHyphen(NonEmptyParts(parts))

\* name.startswith(prefix)
StartsWith(name, prefix) ==
    /\ Len(prefix) <= Len(name)
    /\ SubSeq(name, 1, Len(prefix)) = prefix

\* config.regions, config.deployment_id and config.instance_name_prefix
CleanupRegions == << <<"r", "1">>, <<"r", "_", "2">> >>

RegionIndexes == DOMAIN CleanupRegions

ConfigDeploymentId == <<"d">>

ConfigInstanceNamePrefix == <<"u">>

\* the deployment ids a state file or a caller names; the empty one is None
\* or "", which Python's "or" treats alike
DeploymentIds == {<<>>, <<"d">>, <<"e", "_", "1">>}

\* the deployment ids a caller of the naming-pattern entry point passes
ArgDeploymentIds == {<<>>, <<"e", "_", "1">>}

\* the instance ids the state file records: an instance with an unrelated
\* name and an instance of another deployment
RecordedIds == {<<1, "c">>, <<2, "b">>}

\* the prefixes a caller passes as pattern_prefix
PatternPrefixes == {<<>>, <<"x">>}

\* the instances a region of the cloud can hold: one of the configured
\* deployment, one of another deployment, one with an unrelated name, and one
\* named like the configured deployment that lacks the CreatedBy tag
InstancePool(r) ==
    LET own == build_instance_name_prefix(<<"d">>, CleanupRegions[r],
                                          ConfigInstanceNamePrefix)
        oth == build_instance_name_prefix(<<"e", "_", "1">>, CleanupRegions[r],
                                          ConfigInstanceNamePrefix)
    IN  { [instance_id |-> <<r, "a">>, name |-> own \o <<"-", "0">>, tagged |-> TRUE],
          [instance_id |-> <<r, "b">>, name |-> oth \o <<"-", "0">>, tagged |-> TRUE],
          [instance_id |-> <<r, "c">>, name |-> <<"x">>, tagged |-> TRUE],
          [instance_id |-> <<r, "d">>, name |-> own \o <<"-", "1">>, tagged |-> FALSE] }

AllInstanceIds == UNION {{i.instance_id : i \in InstancePool(r)} : r \in RegionIndexes}

\* pattern_prefix: None, or a string
NoPattern == [given |-> FALSE, value |-> <<>>]

\* _list_all_instances_for_cleanup: the instances carrying the tag
\* CreatedBy = conflux-deployer, or, where the provider cannot filter by tag,
\* the instances whose name starts with the fixed prefix
ListAllInstancesForCleanup(r) ==
    IF ~tagFilterFails
    THEN {i \in cloudInstances[r] : i.tagged}
    ELSE {i \in cloudInstances[r] : StartsWith(i.name, INSTANCE_NAME_FIXED_PREFIX)}

\* the name prefix of one region in force_stop_and_delete_instances_by_naming_pattern
PatternNamePrefix(r) ==
    LET name_prefix == IF clPattern.given
                       THEN clPattern.value
                       ELSE build_instance_name_prefix(clDeployment, CleanupRegions[r],
                                                       ConfigInstanceNamePrefix)
    IN  IF name_prefix = <<>> THEN INSTANCE_NAME_FIXED_PREFIX ELSE name_prefix

\* the instances one iteration of the loop over config.regions matches
Matched_OrRecorded(r) ==
    {i \in cloudInstances[r] :
        \/ i.instance_id \in stateInstances
        \/ StartsWith(i.name, build_instance_name_prefix(clDeployment, CleanupRegions[r],
                                                         ConfigInstanceNamePrefix))}

Matched(r) ==
    IF clEntry = "state_file"
    THEN {i \in ListAllInstancesForCleanup(r) :
            StartsWith(i.name, build_instance_name_prefix(clDeployment, CleanupRegions[r],
                                                          ConfigInstanceNamePrefix))}
    ELSE {i \in cloudInstances[r] : StartsWith(i.name, PatternNamePrefix(r))}

MatchedIds(instances) == {i.instance_id : i \in instances}

\* results.update(more)
DictUpdate(results, more) ==
    [k \in DOMAIN results \cup DOMAIN more |->
        IF k \in DOMAIN more THEN more[k] ELSE results[k]]

InitCleanup ==
    /\ \E held \in [RegionIndexes -> SUBSET {"a", "b", "c", "d"}] :
         cloudInstances = [r \in RegionIndexes |->
                             {i \in InstancePool(r) : i.instance_id[2] \in held[r]}]
    /\ tagFilterFails \in BOOLEAN
    /\ stateDeployment \in DeploymentIds
    /\ stateInstances = RecordedIds
    /\ clPc = "idle"
    /\ clEntry = "none"
    /\ clDryRun = FALSE
    /\ clDeployment = <<>>
    /\ clPattern = NoPattern
    /\ clRegion = 1
    /\ stopped = {}
    /\ terminated = {}
    /\ clResults = <<>>
    /\ IdleCore
    /\ IdleStat
    /\ IdleDump
    /\ IdleOrder
    /\ IdleDb
    /\ IdlePort
    /\ IdleMap
    /\ IdleQuery
    /\ IdleLoader

\* force_stop_and_delete_instances_from_state_file(state_file_path, dry_run)
\* up to the loop: only the deployment id is read from the state file
ForceFromStateFile(dry_run) ==
    /\ clPc = "idle"
    /\ clEntry' = "state_file"
    /\ clDryRun' = dry_run
    /\ clDeployment' = IF stateDeployment # <<>> THEN stateDeployment
                       ELSE ConfigDeploymentId
    /\ clPattern' = NoPattern
    /\ clPc' = "regions"
    /\ UNCHANGED <<cloudInstances, tagFilterFails, stateDeployment, stateInstances,
                   clRegion, stopped, terminated, clResults>>
    /\ UNCHANGED exceptCleanup

\* force_stop_and_delete_instances_by_naming_pattern(deployment_id,
\* pattern_prefix, dry_run) up to the loop
ForceByNamingPattern(deployment_id, pattern_prefix, dry_run) ==
    /\ clPc = "idle"
    /\ clEntry' = "naming_pattern"
    /\ clDryRun' = dry_run
    /\ clDeployment' = IF deployment_id # <<>> THEN deployment_id
                       ELSE ConfigDeploymentId
    /\ clPattern' = pattern_prefix
    /\ clPc' = "regions"
    /\ UNCHANGED <<cloudInstances, tagFilterFails, stateDeployment, stateInstances,
                   clRegion, stopped, terminated, clResults>>
    /\ UNCHANGED exceptCleanup

\* one iteration of the loop of either entry point: nothing matched, continue
RegionNoMatch ==
    /\ clPc = "regions"
    /\ clRegion \in RegionIndexes
    /\ Matched(clRegion) = {}
    /\ clRegion' = clRegion + 1
    /\ UNCHANGED <<cloudInstances, tagFilterFails, stateDeployment, stateInstances,
                   clPc, clEntry, clDryRun, clDeployment, clPattern, stopped,
                   terminated, clResults>>
    /\ UNCHANGED exceptCleanup

RegionDryRun_Stopping ==
    /\ clPc = "regions"
    /\ clRegion \in RegionIndexes
    /\ Matched(clRegion) # {}
    /\ clDryRun
    /\ stopped' = stopped \cup MatchedIds(Matched(clRegion))
    /\ clResults' = DictUpdate(clResults, [k \in MatchedIds(Matched(clRegion)) |-> TRUE])
    /\ clRegion' = clRegion + 1
    /\ UNCHANGED <<cloudInstances, tagFilterFails, stateDeployment, stateInstances,
                   clPc, clEntry, clDryRun, clDeployment, clPattern, terminated>>
    /\ UNCHANGED exceptCleanup

\* one iteration under dry_run: every matched id is reported, nothing is called
RegionDryRun ==
    /\ clPc = "regions"
    /\ clRegion \in RegionIndexes
    /\ Matched(clRegion) # {}
    /\ clDryRun
    /\ clResults' = DictUpdate(clResults, [k \in MatchedIds(Matched(clRegion)) |-> TRUE])
    /\ clRegion' = clRegion + 1
    /\ UNCHANGED <<cloudInstances, tagFilterFails, stateDeployment, stateInstances,
                   clPc, clEntry, clDryRun, clDeployment, clPattern, stopped,
                   terminated>>
    /\ UNCHANGED exceptCleanup

\* one iteration without dry_run: stop_instances, whose failure is logged and
\* swallowed, then terminate_instances, whose answer goes into the results
RegionStopAndTerminate(stop_raises, term_ok) ==
    /\ clPc = "regions"
    /\ clRegion \in RegionIndexes
    /\ Matched(clRegion) # {}
    /\ ~clDryRun
    /\ stopped' = IF stop_raises THEN stopped ELSE stopped \cup MatchedIds(Matched(clRegion))
    /\ terminated' = terminated \cup MatchedIds(Matched(clRegion))
    /\ clResults' = DictUpdate(clResults, [k \in MatchedIds(Matched(clRegion)) |-> term_ok])
    /\ clRegion' = clRegion + 1
    /\ UNCHANGED <<cloudInstances, tagFilterFails, stateDeployment, stateInstances,
                   clPc, clEntry, clDryRun, clDeployment, clPattern>>
    /\ UNCHANGED exceptCleanup

\* one iteration without dry_run in which terminate_instances raises: the
\* exception leaves the entry point
RegionTerminateRaises(stop_raises) ==
    /\ clPc = "regions"
    /\ clRegion \in RegionIndexes
    /\ Matched(clRegion) # {}
    /\ ~clDryRun
    /\ stopped' = IF stop_raises THEN stopped ELSE stopped \cup MatchedIds(Matched(clRegion))
    /\ clPc' = "raised"
    /\ UNCHANGED <<cloudInstances, tagFilterFails, stateDeployment, stateInstances,
                   clEntry, clDryRun, clDeployment, clPattern, clRegion, terminated,
                   clResults>>
    /\ UNCHANGED exceptCleanup

\* return results
ForceReturn ==
    /\ clPc = "regions"
    /\ clRegion \notin RegionIndexes
    /\ clPc' = "returned"
    /\ UNCHANGED <<cloudInstances, tagFilterFails, stateDeployment, stateInstances,
                   clEntry, clDryRun, clDeployment, clPattern, clRegion, stopped,
                   terminated, clResults>>
    /\ UNCHANGED exceptCleanup

NextCleanup ==
    \/ \E dry_run \in BOOLEAN : ForceFromStateFile(dry_run)
    \/ \E deployment_id \in ArgDeploymentIds, dry_run \in BOOLEAN :
         \E pattern_prefix \in {NoPattern} \cup
                               {[given |-> TRUE, value |-> p] : p \in PatternPrefixes} :
            ForceByNamingPattern(deployment_id, pattern_prefix, dry_run)
    \/ RegionNoMatch
    \/ RegionDryRun
    \/ \E stop_raises \in BOOLEAN, term_ok \in BOOLEAN :
         RegionStopAndTerminate(stop_raises, term_ok)
    \/ \E stop_raises \in BOOLEAN : RegionTerminateRaises(stop_raises)
    \/ ForceReturn

SpecCleanup == InitCleanup /\ [][NextCleanup]_vars

(***************************************************************************)
(* Properties of Statistics and Table.                                     *)
(***************************************************************************)
\* v is the element of rank k (from 0) of list l in ascending order: it is in
\* l, at most k elements are smaller and at least k + 1 are not larger
IsOrderStatistic(l, k, v) ==
    /\ \E i \in 1..Len(l) : l[i] = v
    /\ Cardinality({i \in 1..Len(l) : l[i] < v}) <= k
    /\ Cardinality({i \in 1..Len(l) : l[i] <= v}) >= k + 1

\* the numeric percentiles P10 .. P999 with p.value = num / den
Fractions ==
    {<<"P10", 1, 10>>, <<"P30", 3, 10>>, <<"P50", 5, 10>>, <<"P80", 8, 10>>,
     <<"P90", 9, 10>>, <<"P95", 95, 100>>, <<"P99", 99, 100>>,
     <<"P999", 999, 1000>>}

\* C11: a Statistics built from an empty sample answers get(p) for every
\* Percentile p without raising.
C11_EmptyStatisticsGetAbsent ==
    (stat.built /\ sample = <<>>) => got.outcome # "KeyError"

\* C12: a Statistics built from a non-empty sample of size n has Cnt = n,
\* Max = the largest element and P50 = the element of rank floor((n-1)/2) of
\* the sample in ascending order.
C12_CntMaxMedian ==
    (stat.built /\ sample # <<>>) =>
        LET n == Len(sample)
        IN  /\ stat.dict.Cnt = n
            /\ IsOrderStatistic(sample, n - 1, stat.dict.Max)
            /\ \E k \in 0..(n - 1) :
                  /\ 2 * k <= n - 1
                  /\ n - 1 < 2 * (k + 1)
                  /\ IsOrderStatistic(sample, k, stat.dict.P50)

\* C12 witness: a Statistics built from an unsorted sample of the largest
\* size whose median differs from its maximum and its minimum
C12_Witness ==
    /\ stat.built
    /\ Len(sample) = MaxSampleSize
    /\ sample # statData
    /\ stat.dict.Min < stat.dict.P50
    /\ stat.dict.P50 < stat.dict.Max

\* C13 as stated: every percentile P10 .. P999 is the element whose rank is
\* (n-1)*P rounded to the nearest integer (either neighbour on a tie).
C13_PercentileIsNearestRank ==
    (stat.built /\ sample # <<>>) =>
        \A f \in Fractions :
            \E k \in 0..(Len(sample) - 1) :
                /\ 2 * k * f[3] - 2 * (Len(sample) - 1) * f[2] <= f[3]
                /\ 2 * (Len(sample) - 1) * f[2] - 2 * k * f[3] <= f[3]
                /\ IsOrderStatistic(sample, k, stat.dict[f[1]])

\* C13 amended: every percentile P10 .. P999 is the element whose rank is
\* (n-1)*P truncated, floor((n-1)*P), of the sample in ascending order; no
\* interpolation.
C13_PercentileIsFloorRank ==
    (stat.built /\ sample # <<>>) =>
        \A f \in Fractions :
            \E k \in 0..(Len(sample) - 1) :
                /\ k * f[3] <= (Len(sample) - 1) * f[2]
                /\ (Len(sample) - 1) * f[2] < (k + 1) * f[3]
                /\ IsOrderStatistic(sample, k, stat.dict[f[1]])

\* C13 witness: a sample of two different values, whose P90 is the smaller
\* one (rank floor(0.9) = 0) although 0.9 rounds to rank 1
C13_Witness ==
    /\ stat.built
    /\ Len(sample) = 2
    /\ sample[1] > sample[2]
    /\ stat.dict.P90 = sample[2]
    /\ stat.dict.P90 # stat.dict.Max

\* C19: every Table.add_stat call appends exactly one row, which holds the
\* name and one cell for every Percentile but Min; also for a Statistics
\* built from zero samples (then the cells are "N/A").
C19_AddStatAppendsOneRow ==
    stat.built =>
        /\ Len(tableRows) = nAddStat
        /\ \A i \in 1..Len(tableRows) :
              /\ Len(tableRows[i]) = Len(PercentileNames)
              /\ sample = <<>> =>
                    \A j \in 2..Len(tableRows[i]) : tableRows[i][j] = NotAvailable

\* C14: after dump(path) and loadf(path) the loaded reducer's block map
\* and transaction map hold the same hashes and, under each hash, an object
\* with the same value of every field as the original reducer.
C14_DumpLoadRoundTrip ==
    loaded.present =>
        /\ loaded.reducer.blocks = reducer.blocks
        /\ loaded.reducer.txs = reducer.txs

\* C14 witness: a reducer with two blocks, one with a custom stage, and a
\* transaction with a None ready-pool entry and two packed timestamps was
\* dumped and loaded
C14_Witness ==
    /\ loaded.present
    /\ Len(reducer.blocks.v.keys) = Cardinality(Hashes)
    /\ \E i \in 1..Len(reducer.blocks.v.vals) :
          Len(reducer.blocks.v.vals[i].v.dict.v.vals[8].v.keys) > Len(DefaultLatencyKeySeq)
    /\ \E i \in 1..Len(loaded.reducer.txs.v.vals) :
          LET tx == loaded.reducer.txs.v.vals[i].v.dict
          IN  /\ DictGet(tx, "ready_pool_timestamps", Py("None", 0)) = FloatList(<<Null>>)
              /\ Len(DictGet(tx, "packed_timestamps", Py("None", 0)).v) = 2

\* two lists hold the same collection of items
SameItems(l1, l2) ==
    \A v \in {l1[i] : i \in 1..Len(l1)} \cup {l2[i] : i \in 1..Len(l2)} :
        Count(l1, v) = Count(l2, v)

\* the transaction with hash h in the list txs
TxOf(txs, h) == txs[TxIndex(txs, h)]

\* C15: folding the same host summaries in either order and then running
\* validate() and generate_latency_stat() gives the same block map, the same
\* received, packed and ready-pool timestamp collections for every
\* transaction hash, and the same Statistics.
C15_FoldOrderIndependent ==
    (orderPc["fwd"] = "generated" /\ orderPc["bwd"] = "generated") =>
        LET f == orderAgg["fwd"]
            b == orderAgg["bwd"]
        IN  /\ DOMAIN f.blocks = DOMAIN b.blocks
            /\ \A h \in DOMAIN f.blocks \cap DOMAIN b.blocks :
                  /\ DOMAIN f.blocks[h].latencies = DOMAIN b.blocks[h].latencies
                  /\ \A k \in DOMAIN f.blocks[h].latencies \cap DOMAIN b.blocks[h].latencies :
                        SameItems(f.blocks[h].latencies[k], b.blocks[h].latencies[k])
            /\ {f.txs[i].hash : i \in 1..Len(f.txs)} = {b.txs[i].hash : i \in 1..Len(b.txs)}
            /\ \A h \in {f.txs[i].hash : i \in 1..Len(f.txs)} \cap
                        {b.txs[i].hash : i \in 1..Len(b.txs)} :
                  /\ SameItems(TxOf(f.txs, h).received_timestamps,
                               TxOf(b.txs, h).received_timestamps)
                  /\ SameItems(TxOf(f.txs, h).packed_timestamps,
                               TxOf(b.txs, h).packed_timestamps)
                  /\ SameItems(TxOf(f.txs, h).ready_pool_timestamps,
                               TxOf(b.txs, h).ready_pool_timestamps)
            /\ f.block_latency_stats = b.block_latency_stats
            /\ f.tx_latency_stats = b.tx_latency_stats
            /\ f.tx_packed_to_block_latency = b.tx_packed_to_block_latency

\* C17: after generate_latency_stat() a block has a Statistics for a
\* pivot-only event type or for a custom stage name only if at least 90% of
\* the hosts reported a sample for it (10 * samples >= 9 * hosts).
C17_PivotStatsNeedNinetyPercent ==
    aggPhase = "generated" =>
        \A k \in DOMAIN agg.block_latency_stats :
            (OnlyPivotEvent(k) \/ k \notin DefaultLatencyKeys) =>
                \A h \in DOMAIN agg.block_latency_stats[k] \cap DOMAIN agg.blocks :
                    10 * Len(LatenciesOf(agg.blocks[h], k)) >= 9 * NumNodes

\* the in-memory aggregator fed with the hosts hs, one add_host each
RECURSIVE FoldHosts(_, _)
FoldHosts(a, hs) ==
    IF hs = <<>> THEN a ELSE FoldHosts(AddHostResult(a, Head(hs)), Tail(hs))

\* the InMemoryLogAggregator after add_host for every host of the cluster,
\* validate() and generate_latency_stat()
InMemoryOf(hs) ==
    GenerateLatencyStatResult(ValidateResult(FoldHosts(NewAggregator, hs)))

\* C16: after add_host for every host, validate() and
\* generate_latency_stat(), the DBLogAggregator exposes the same set of
\* retained blocks and the same per-block and per-transaction Statistics as
\* the InMemoryLogAggregator fed with the same cluster.
C16_DbMatchesInMemory ==
    dbPhase = "generated" =>
        LET mem == InMemoryOf(dbHosts)
        IN  /\ DOMAIN dbAgg.blocks = DOMAIN mem.blocks
            /\ dbAgg.block_latency_stats = mem.block_latency_stats
            /\ dbAgg.tx_latency_stats = mem.tx_latency_stats
            /\ dbAgg.tx_packed_to_block_latency = mem.tx_packed_to_block_latency

\* the store holds no row of block hash h
NoBlockRows(st, h) ==
    /\ h \notin DOMAIN st.block_meta
    /\ \A i \in 1..Len(st.block_latency) : st.block_latency[i].block_hash # h

PortsOf(instance_id, field) ==
    {nodes[instance_nodes[instance_id][k]][field] :
        k \in 1..Len(instance_nodes[instance_id])}

\* C20: the port sets, the RPC-port sets and the P2P-port sets that
\* collect_node_info assigned to two different instances are disjoint.
C20_PortBlocksDisjoint ==
    \A i1, i2 \in DOMAIN instance_nodes :
        i1 # i2 =>
            \A field \in {"port", "rpc_port", "p2p_port"} :
                PortsOf(i1, field) \cap PortsOf(i2, field) = {}

(***************************************************************************)
(* Properties of NodeLogMapper.                                            *)
(***************************************************************************)
\* C23: every sync/cons gap sample a NodeLogMapper holds is >= 0, and a
\* Statistics line whose sync-graph inserted count is below its consensus
\* inserted count raises and appends no sample.
C23_GapSamplesNonNegative ==
    /\ [](\A i \in 1..Len(nodeMapper.sync_cons_gaps) : nodeMapper.sync_cons_gaps[i] >= 0)
    /\ [][(/\ nLogLines' = nLogLines + 1
           /\ mapLine'.marker = "Statistics"
           /\ mapLine'.has
           /\ mapLine'.sync_len < mapLine'.cons_len)
          => (/\ mapOutcome' = "raise"
              /\ nodeMapper'.sync_cons_gaps = nodeMapper.sync_cons_gaps)]_vars

\* a mapper that holds a sample has just refused a line with sync below cons
C23_Witness ==
    /\ mapLine.marker = "Statistics"
    /\ mapLine.has
    /\ mapLine.sync_len < mapLine.cons_len
    /\ mapOutcome = "raise"
    /\ Len(nodeMapper.sync_cons_gaps) >= 1

\* C24: a line that holds a marker phrase of parse_log_line and lacks a
\* field the marker requires makes the call raise; the call never returns
\* normally with the event dropped.
C24_MissingFieldRaises ==
    LacksField(mapLine) => mapOutcome = "raise"

C30_SyncCountAtMostNodeLogs ==
    /\ \A h \in DOMAIN nodeMapper.blocks : SyncCount(nodeMapper.blocks[h]) <= 1
    /\ \A h \in DOMAIN hostReducer.blocks : SyncCount(hostReducer.blocks[h]) <= nNodeLogs

(***************************************************************************)
(* Properties of the stat_* queries.                                       *)
(***************************************************************************)
\* C26: after validate() and generate_latency_stat() every stat_* call
\* leaves every field of the aggregator as it was, the contents and the
\* order of its sample lists included.
C26_StatQueriesReadOnly ==
    [][(queryPc = "generated" /\ nQueries' = nQueries + 1) => queryAgg' = queryAgg]_vars

(***************************************************************************)
(* Further properties of SqliteStorage.                                    *)
(***************************************************************************)
\* C28: once reopening the closed connection has failed, the next read call
\* and the next write call end with an error in their caller: the read gives
\* no rows back and a write call does not return as if its operation had
\* been accepted.
C28_ReopenFailurePropagates ==
    [][(reopenFailed /\ conn = "closed") =>
          /\ \A c \in Callers :
                (cpc[c] = "read_query" /\ cpc'[c] = "read_done")
                    => result'[c].status = "error"
          /\ enqueued' = enqueued]_vars

\* the enqueued operations the writer has applied and committed, in the
\* order they were enqueued
AppliedOps == SelectSeq(enqueued, LAMBDA op : op.id \in applied)

\* C29: the writer applies the operations in the order they were enqueued:
\* it takes them first in, first out, and the store holds the samples of the
\* applied operations that no applied delete of their block enqueued after
\* them removed, so a delete removes the rows of the inserts enqueued before
\* it and the rows of inserts enqueued after it remain (stated for a store
\* whose tables exist).
C29_WriterAppliesInEnqueueOrder ==
    /\ \A i \in applied, j \in 1..Len(enqueued) :
            j < i => j \in applied \cup failed
    /\ db.schema => db.rows = ExpectedRows(AppliedOps)

\* a sample of a block and then the delete of that block were enqueued and
\* both applied: the store holds no row of the block
C29_Witness ==
    \E i, j \in applied :
        /\ i < j
        /\ enqueued[i].otype = "block_latency"
        /\ enqueued[j].otype = "delete_block"
        /\ enqueued[i].hash = enqueued[j].hash
        /\ db.schema
        /\ \A k \in 1..Len(db.rows) : db.rows[k].hash # enqueued[j].hash

(***************************************************************************)
(* Properties of LogDirectoryLoader.                                       *)
(***************************************************************************)
\* the number of add_host calls made with host f
TimesAdded(f) == Cardinality({i \in 1..Len(loadAdded) : loadAdded[i] = f})

\* C25: when load() returns, every discovered host has been folded with
\* add_host exactly once; an add_host call is made only with a host whose
\* future has completed, and at most one add_host call is running at any
\* time, also while the pool still loads other hosts.
C25_EachHostFoldedOnce ==
    /\ loadPc = "returned" => \A f \in loadFiles : TimesAdded(f) = 1
    /\ \A f \in loadFiles : TimesAdded(f) <= 1
    /\ \A i \in 1..Len(loadAdded) : futures[loadAdded[i]] = "done"
    /\ Cardinality(loadActive) <= 1

\* add_host of one host is running while the pool still loads another host
\* and a third has been folded
C25_Witness ==
    /\ Cardinality(loadActive) = 1
    /\ Running # {}
    /\ Len(loadAdded) >= 2


\* C21: with dry_run = True neither force-cleanup entry point calls
\* stop_instances or terminate_instances on any provider, and the call
\* returns every matched instance id mapped to True.
C21_DryRunCallsNothing ==
    clDryRun =>
        /\ stopped = {}
        /\ terminated = {}
        /\ clPc # "raised"
        /\ clPc = "returned" =>
             clResults = [k \in UNION {MatchedIds(Matched(r)) : r \in RegionIndexes}
                            |-> TRUE]

\* a dry run by naming pattern has returned ids of both regions
C21_Witness ==
    /\ clDryRun
    /\ clEntry = "naming_pattern"
    /\ clPc = "returned"
    /\ \A r \in RegionIndexes : \E k \in DOMAIN clResults : k[1] = r

\* the name prefix force_stop_and_delete_instances_from_state_file derives
\* for a region from the state file and the configuration
StatePrefix(r) ==
    build_instance_name_prefix(IF stateDeployment # <<>> THEN stateDeployment
                               ELSE ConfigDeploymentId,
                               CleanupRegions[r], ConfigInstanceNamePrefix)

\* C22: force_stop_and_delete_instances_from_state_file stops and terminates
\* only instances whose name starts with the deployment's name prefix for a
\* configured region, whether or not the state file records their id, and a
\* call that returns has terminated every such instance the cloud enumerated
\* for cleanup.
C22_OnlyNamePrefixMatches ==
    clEntry = "state_file" =>
        /\ \A id \in stopped \cup terminated :
             \E r \in RegionIndexes : \E i \in cloudInstances[r] :
                /\ i.instance_id = id
                /\ StartsWith(i.name, StatePrefix(r))
        /\ (clPc = "returned" /\ ~clDryRun) =>
             /\ terminated =
                  UNION {{i.instance_id : i \in {j \in ListAllInstancesForCleanup(r) :
                                                   StartsWith(j.name, StatePrefix(r))}} :
                         r \in RegionIndexes}
             /\ stopped \subseteq terminated

\* a call has terminated instances while an instance of another name that
\* the state file records is still there
C22_Witness ==
    /\ clEntry = "state_file"
    /\ clPc = "returned"
    /\ ~clDryRun
    /\ terminated # {}
    /\ stopped # {}
    /\ \E r \in RegionIndexes : \E i \in ListAllInstancesForCleanup(r) :
         /\ i.instance_id \in stateInstances
         /\ i.instance_id \notin terminated

====
